---- MODULE Spec2Model ----
(***************************************************************************)
(* Server-side coordination kernel of vibeconnect: QueueManager,           *)
(* PairingManager, ConnectionManager, MessageRouter and the websocket      *)
(* front of the refactored server.  Every websocket event (a frame, a      *)
(* transport close, a timer) is one atomic action: the handlers are         *)
(* synchronous JavaScript run by a single-threaded event loop.             *)
(***************************************************************************)
EXTENDS Integers, Sequences, FiniteSets, TLC

(* ---------------------------------------------------------------------- *)
(* Bounds of the model                                                     *)
(* ---------------------------------------------------------------------- *)
\* transports (websocket objects) that may ever be opened
MaxTransports == 2
\* last value of the logical clock (Date.now() in ticks)
MaxTime == 1
\* entries kept in a session's switch history before the model stops switching
MaxSwitches == 1
\* last value of the clock where the rate limiter is followed
MaxLimiterTime == 3
\* messages counted in a session before the model stops relaying text
MaxMessages == 3
\* last value of the clock where the heartbeat is followed
MaxHeartbeatTime == 4
\* disconnect frames of one user that the model follows
MaxSkips == 2
\* last value of the clock where the queue sweeper is followed
MaxSweepTime == 4
\* timeouts of mode switches outstanding at once when the PairingManager is
\* called on its own
MaxTimers == 1

(* ---------------------------------------------------------------------- *)
(* Program constants                                                       *)
(* ---------------------------------------------------------------------- *)
\* config.maxQueueSize (scaled down from 10000)
maxQueueSize == 3
\* config.queueTimeout in clock ticks (scaled down from 300000 ms)
queueTimeout == 2
\* config.cleanupInterval in clock ticks (scaled down from 60000 ms)
cleanupInterval == 2
\* config.modeSwitchTimeout in clock ticks (scaled down from 30000 ms)
modeSwitchTimeout == 1

\* CONSTANTS.MAX_MESSAGE_LENGTH in characters (scaled down from 500)
MAX_MESSAGE_LENGTH == 2
\* CONSTANTS.MAX_MESSAGE_SIZE, in bytes
MAX_MESSAGE_SIZE == 10240
\* rateLimitConfig.messages.limit (scaled down from 30)
DEFAULT_RATE_LIMIT_MESSAGES == 2
\* rateLimitConfig.messages.window in clock ticks (scaled down from 60000 ms)
DEFAULT_RATE_LIMIT_WINDOW_MS == 2
DEFAULT_RATE_LIMIT_SKIPS == 10
DEFAULT_RATE_LIMIT_REPORTS == 3
\* rateLimitConfig.reports.window in clock ticks (scaled down from 3600000 ms)
DEFAULT_RATE_LIMIT_REPORTS_WINDOW_MS == 3
\* config.maxConnectionsPerIP (scaled down from 20)
maxConnectionsPerIP == 2
\* the 60000 ms window of trackIPConnection in clock ticks
ipConnectionWindow == 2
\* ban duration in clock ticks (scaled down from 86400000 ms)
DEFAULT_BAN_DURATION == 2
ABUSE_MESSAGE_RATE_THRESHOLD == 2
ABUSE_SKIP_COUNT_THRESHOLD == 15
ABUSE_REPORT_COUNT_THRESHOLD == 3
\* minimal session duration of the spammer pattern in clock ticks
ABUSE_SESSION_MIN_DURATION_SEC == 1
\* ConnectionManager config.heartbeatInterval, in ticks of the clock (30000 ms)
heartbeatInterval == 1
\* ConnectionManager config.connectionTimeout (60000 ms)
connectionTimeout == 2

Users == {"a", "b", "c"}
Modes == {"text", "video", "voice"}
Transports == 1..MaxTransports
None == "none"
\* before any PairingManager method has been called on its own
NoCall == [call |-> None, success |-> FALSE,
           user1 |-> None, user2 |-> None, mode |-> None]

(* ---------------------------------------------------------------------- *)
(* JavaScript Map as a function with a finite domain                       *)
(* ---------------------------------------------------------------------- *)
EmptyMap == [k \in {} |-> None]
MapHas(m, k) == k \in DOMAIN m
MapSet(m, k, v) == [x \in (DOMAIN m) \cup {k} |-> IF x = k THEN v ELSE m[x]]
MapDelete(m, k) == [x \in (DOMAIN m) \ {k} |-> m[x]]

\* Array.prototype.indexOf / splice(index, 1): drop the first occurrence
RECURSIVE RemoveFirst(_, _)
RemoveFirst(s, x) ==
    IF s = <<>> THEN <<>>
    ELSE IF Head(s) = x THEN Tail(s)
    ELSE <<Head(s)>> \o RemoveFirst(Tail(s), x)

InSeq(s, x) == \E i \in 1..Len(s) : s[i] = x

(* ---------------------------------------------------------------------- *)
(* QueueManager                                                            *)
(* ---------------------------------------------------------------------- *)
QueueManagerInit ==
    [queues |-> [m \in Modes |-> <<>>],
     priorityQueues |-> [m \in Modes |-> <<>>],
     queueTimestamps |-> EmptyMap,
     userQueueMap |-> EmptyMap,
     matchingLock |-> FALSE,
     totalTimeouts |-> 0,              \* metrics.totalTimeouts
     cleanupDue |-> cleanupInterval]   \* next firing of cleanupIntervalId

\* a removeFromQueue that forgets to delete the timestamp
removeFromQueueKeepsTimestamp(q, userId) ==
    IF ~MapHas(q.userQueueMap, userId)
    THEN [ret |-> FALSE,
          q |-> [q EXCEPT !.queueTimestamps = MapDelete(@, userId)]]
    ELSE LET info == q.userQueueMap[userId]
             q1 == IF info.isPriority
                   THEN [q EXCEPT !.priorityQueues[info.mode] = RemoveFirst(@, userId)]
                   ELSE [q EXCEPT !.queues[info.mode] = RemoveFirst(@, userId)]
         IN [ret |-> TRUE,
             q |-> [q1 EXCEPT !.userQueueMap = MapDelete(@, userId)]]

\* removeFromQueue(userId): the manager afterwards, and the returned boolean
removeFromQueue(q, userId) ==
    IF ~MapHas(q.userQueueMap, userId)
    THEN [ret |-> FALSE,
          q |-> [q EXCEPT !.queueTimestamps = MapDelete(@, userId)]]
    ELSE LET info == q.userQueueMap[userId]
             q1 == IF info.isPriority
                   THEN [q EXCEPT !.priorityQueues[info.mode] = RemoveFirst(@, userId)]
                   ELSE [q EXCEPT !.queues[info.mode] = RemoveFirst(@, userId)]
         IN [ret |-> TRUE,
             q |-> [q1 EXCEPT !.userQueueMap = MapDelete(@, userId),
                              !.queueTimestamps = MapDelete(@, userId)]]

\* an addToQueue that accepts one entry more
addToQueueOverfull(q, userId, mode, priority, t) ==
    IF Len(q.queues[mode]) + Len(q.priorityQueues[mode]) > maxQueueSize
    THEN [ret |-> FALSE, q |-> q]
    ELSE LET q1 == removeFromQueue(q, userId).q
             isPriority == priority > 0
             q2 == IF isPriority
                   THEN [q1 EXCEPT !.priorityQueues[mode] = Append(@, userId)]
                   ELSE [q1 EXCEPT !.queues[mode] = Append(@, userId)]
         IN [ret |-> TRUE,
             q |-> [q2 EXCEPT
                      !.userQueueMap = MapSet(@, userId,
                          [mode |-> mode, isPriority |-> isPriority]),
                      !.queueTimestamps = MapSet(@, userId,
                          [mode |-> mode, timestamp |-> t, priority |-> priority])]]

\* an addToQueue that does not remove the user's old entry first
addToQueueKeepsOld(q, userId, mode, priority, t) ==
    IF Len(q.queues[mode]) + Len(q.priorityQueues[mode]) >= maxQueueSize
    THEN [ret |-> FALSE, q |-> q]
    ELSE LET isPriority == priority > 0
             q2 == IF isPriority
                   THEN [q EXCEPT !.priorityQueues[mode] = Append(@, userId)]
                   ELSE [q EXCEPT !.queues[mode] = Append(@, userId)]
         IN [ret |-> TRUE,
             q |-> [q2 EXCEPT
                      !.userQueueMap = MapSet(@, userId,
                          [mode |-> mode, isPriority |-> isPriority]),
                      !.queueTimestamps = MapSet(@, userId,
                          [mode |-> mode, timestamp |-> t, priority |-> priority])]]

\* addToQueue(userId, mode, priority) at time t
addToQueue(q, userId, mode, priority, t) ==
    IF Len(q.queues[mode]) + Len(q.priorityQueues[mode]) >= maxQueueSize
    THEN [ret |-> FALSE, q |-> q]
    ELSE LET q1 == removeFromQueue(q, userId).q
             \* config.enablePriority is true
             isPriority == priority > 0
             q2 == IF isPriority
                   THEN [q1 EXCEPT !.priorityQueues[mode] = Append(@, userId)]
                   ELSE [q1 EXCEPT !.queues[mode] = Append(@, userId)]
         IN [ret |-> TRUE,
             q |-> [q2 EXCEPT
                      !.userQueueMap = MapSet(@, userId,
                          [mode |-> mode, isPriority |-> isPriority]),
                      !.queueTimestamps = MapSet(@, userId,
                          [mode |-> mode, timestamp |-> t, priority |-> priority])]]

\* a choice of users that serves the normal tier before the priority tier
matchPickNormalFirst(q, mode) ==
    LET p == q.priorityQueues[mode]
        n == q.queues[mode]
    IN IF Len(n) >= 2
       THEN [users |-> <<n[1], n[2]>>,
             q |-> [q EXCEPT !.queues[mode] = Tail(Tail(n))]]
       ELSE IF Len(p) >= 1 /\ Len(n) >= 1
       THEN [users |-> <<p[1], n[1]>>,
             q |-> [q EXCEPT !.priorityQueues[mode] = Tail(p),
                             !.queues[mode] = Tail(n)]]
       ELSE IF Len(p) >= 2
       THEN [users |-> <<p[1], p[2]>>,
             q |-> [q EXCEPT !.priorityQueues[mode] = Tail(Tail(p))]]
       ELSE [users |-> <<>>, q |-> q]

\* the two users matchUsers shifts from the tiers, <<>> when fewer than two
matchPick(q, mode) ==
    LET p == q.priorityQueues[mode]
        n == q.queues[mode]
    IN IF Len(p) >= 2
       THEN [users |-> <<p[1], p[2]>>,
             q |-> [q EXCEPT !.priorityQueues[mode] = Tail(Tail(p))]]
       ELSE IF Len(p) >= 1 /\ Len(n) >= 1
       THEN [users |-> <<p[1], n[1]>>,
             q |-> [q EXCEPT !.priorityQueues[mode] = Tail(p),
                             !.queues[mode] = Tail(n)]]
       ELSE IF Len(n) >= 2
       THEN [users |-> <<n[1], n[2]>>,
             q |-> [q EXCEPT !.queues[mode] = Tail(Tail(n))]]
       ELSE [users |-> <<>>, q |-> q]

\* matchUsers(mode): match is <<user1, user2>> or <<>> (null)
matchUsers(q, mode) ==
    IF q.matchingLock
    THEN [match |-> <<>>, q |-> q]
    ELSE LET pick == matchPick(q, mode)
         IN IF pick.users = <<>>
            THEN [match |-> <<>>, q |-> q]
            ELSE IF pick.users[1] = pick.users[2]
            THEN [match |-> <<>>,
                  q |-> [pick.q EXCEPT
                           !.queues[mode] = <<pick.users[1]>> \o @,
                           !.userQueueMap = MapSet(@, pick.users[1],
                               [mode |-> mode, isPriority |-> FALSE])]]
            ELSE [match |-> pick.users,
                  q |-> [pick.q EXCEPT
                           !.queueTimestamps =
                               MapDelete(MapDelete(@, pick.users[1]), pick.users[2]),
                           !.userQueueMap =
                               MapDelete(MapDelete(@, pick.users[1]), pick.users[2])]]

\* the users whose queue entry is older than queueTimeout at time t
expiredUsers(q, t) ==
    {userId \in DOMAIN q.queueTimestamps :
        t - q.queueTimestamps[userId].timestamp > queueTimeout}

\* the loop of cleanupExpiredEntries over the expired users
RECURSIVE removeExpired(_, _)
removeExpired(q, users) ==
    IF users = {} THEN q
    ELSE LET userId == CHOOSE u \in users : TRUE
             q1 == removeFromQueue(q, userId).q
         IN removeExpired([q1 EXCEPT !.totalTimeouts = @ + 1], users \ {userId})

\* a sweeper that also takes the entries whose age equals queueTimeout
cleanupExpiredEntriesEarly(q, t) ==
    removeExpired(q, {userId \in DOMAIN q.queueTimestamps :
                        t - q.queueTimestamps[userId].timestamp >= queueTimeout})

\* cleanupExpiredEntries() at time t
cleanupExpiredEntries(q, t) == removeExpired(q, expiredUsers(q, t))

(* ---------------------------------------------------------------------- *)
(* PairingManager                                                          *)
(* ---------------------------------------------------------------------- *)
PairingManagerInit ==
    [pairs |-> EmptyMap,
     sessions |-> EmptyMap,
     userModes |-> EmptyMap,
     modeSwitchPending |-> EmptyMap]

\* Array.prototype.sort on two user ids: position in code-unit order
SortedUsers == <<"a", "b", "c">>
\* the same order over all userIds clients use, with ids that hold the joining
\* character of _generatePairId
IdOrder == <<"a", "a_b", "b", "b_c", "c">>
UserRank(u) == CHOOSE i \in 1..Len(IdOrder) : IdOrder[i] = u

\* _generatePairId(user1, user2) == [user1, user2].sort().join('_')
generatePairId(user1, user2) ==
    IF UserRank(user1) <= UserRank(user2)
    THEN user1 \o "_" \o user2
    ELSE user2 \o "_" \o user1

\* createPair that records the pair under user1 only
createPairOneWay(p, user1, user2, mode) ==
    IF user1 = user2 \/ MapHas(p.pairs, user1) \/ MapHas(p.pairs, user2)
    THEN [success |-> FALSE, p |-> p]
    ELSE [success |-> TRUE,
          p |-> [p EXCEPT
                   !.pairs = MapSet(@, user1, user2),
                   !.userModes = MapSet(MapSet(@, user1, mode), user2, mode),
                   !.sessions = MapSet(@, generatePairId(user1, user2),
                       [user1 |-> user1, user2 |-> user2, mode |-> mode,
                        messageCount |-> 0, switches |-> <<>>])]]

\* a createPair that does not look whether its users are paired already
createPairAgain(p, user1, user2, mode) ==
    IF user1 = user2
    THEN [success |-> FALSE, p |-> p]
    ELSE IF mode \notin {"text", "video", "voice"}
    THEN [success |-> FALSE, p |-> p]
    ELSE [success |-> TRUE,
          p |-> [p EXCEPT
                   !.pairs = MapSet(MapSet(@, user1, user2), user2, user1),
                   !.userModes = MapSet(MapSet(@, user1, mode), user2, mode),
                   !.sessions = MapSet(@, generatePairId(user1, user2),
                       [user1 |-> user1, user2 |-> user2, mode |-> mode,
                        messageCount |-> 0, switches |-> <<>>])]]

\* createPair(user1, user2, mode)
createPair(p, user1, user2, mode) ==
    IF user1 = user2
    THEN [success |-> FALSE, p |-> p]
    ELSE IF MapHas(p.pairs, user1) \/ MapHas(p.pairs, user2)
    THEN [success |-> FALSE, p |-> p]
    ELSE IF mode \notin {"text", "video", "voice"}
    THEN [success |-> FALSE, p |-> p]
    ELSE [success |-> TRUE,
          p |-> [p EXCEPT
                   !.pairs = MapSet(MapSet(@, user1, user2), user2, user1),
                   !.userModes = MapSet(MapSet(@, user1, mode), user2, mode),
                   !.sessions = MapSet(@, generatePairId(user1, user2),
                       [user1 |-> user1, user2 |-> user2, mode |-> mode,
                        messageCount |-> 0, switches |-> <<>>])]]

getPair(p, userId) == IF MapHas(p.pairs, userId) THEN p.pairs[userId] ELSE None
isPaired(p, userId) == MapHas(p.pairs, userId)
getUserMode(p, userId) == IF MapHas(p.userModes, userId) THEN p.userModes[userId] ELSE None

\* a breakPair that leaves the pending mode switches alone
breakPairKeepsPending(p, userId) ==
    IF ~MapHas(p.pairs, userId)
    THEN [success |-> FALSE, partnerId |-> None, sessionMode |-> None, p |-> p]
    ELSE LET partnerId == p.pairs[userId]
             pairId == generatePairId(userId, partnerId)
         IN [success |-> TRUE,
             partnerId |-> partnerId,
             sessionMode |-> IF MapHas(p.sessions, pairId)
                             THEN p.sessions[pairId].mode ELSE None,
             p |-> [p EXCEPT
                      !.pairs = MapDelete(MapDelete(@, userId), partnerId),
                      !.userModes = MapDelete(MapDelete(@, userId), partnerId),
                      !.sessions = MapDelete(@, pairId)]]

\* a breakPair that clears the pending mode switch under userId only
breakPairClearsOwn(p, userId) ==
    IF ~MapHas(p.pairs, userId)
    THEN [success |-> FALSE, partnerId |-> None, sessionMode |-> None, p |-> p]
    ELSE LET partnerId == p.pairs[userId]
             pairId == generatePairId(userId, partnerId)
         IN [success |-> TRUE,
             partnerId |-> partnerId,
             sessionMode |-> IF MapHas(p.sessions, pairId)
                             THEN p.sessions[pairId].mode ELSE None,
             p |-> [p EXCEPT
                      !.pairs = MapDelete(MapDelete(@, userId), partnerId),
                      !.userModes = MapDelete(MapDelete(@, userId), partnerId),
                      !.sessions = MapDelete(@, pairId),
                      !.modeSwitchPending = MapDelete(@, userId)]]

\* breakPair(userId): sessionMode is result.sessionData?.mode (None when undefined)
breakPair(p, userId) ==
    IF ~MapHas(p.pairs, userId)
    THEN [success |-> FALSE, partnerId |-> None, sessionMode |-> None, p |-> p]
    ELSE LET partnerId == p.pairs[userId]
             pairId == generatePairId(userId, partnerId)
         IN [success |-> TRUE,
             partnerId |-> partnerId,
             sessionMode |-> IF MapHas(p.sessions, pairId)
                             THEN p.sessions[pairId].mode ELSE None,
             p |-> [p EXCEPT
                      !.pairs = MapDelete(MapDelete(@, userId), partnerId),
                      !.userModes = MapDelete(MapDelete(@, userId), partnerId),
                      !.sessions = MapDelete(@, pairId),
                      !.modeSwitchPending =
                          MapDelete(MapDelete(@, userId), partnerId)]]

\* a switchMode whose first arrival already moves the session to the new mode
switchModeFirstSetsSession(p, userId, partnerId, newMode, t) ==
    IF getPair(p, userId) # partnerId
    THEN [success |-> FALSE, error |-> "Users not paired", isOfferer |-> FALSE,
          partnerId |-> None, bothReady |-> FALSE, timers |-> {}, p |-> p]
    ELSE IF newMode \notin {"text", "video", "voice"}
    THEN [success |-> FALSE, error |-> "Invalid mode", isOfferer |-> FALSE,
          partnerId |-> None, bothReady |-> FALSE, timers |-> {}, p |-> p]
    ELSE LET p1 == [p EXCEPT !.userModes = MapSet(@, userId, newMode)]
         IN IF MapHas(p1.modeSwitchPending, userId)
            THEN LET initiatorId == p1.modeSwitchPending[userId]
                     p2 == [p1 EXCEPT !.modeSwitchPending = MapDelete(@, userId)]
                     pairId == generatePairId(userId, initiatorId)
                 IN IF getPair(p2, initiatorId) # userId
                    THEN [success |-> FALSE,
                          error |-> "Pairing changed during mode switch",
                          isOfferer |-> FALSE, partnerId |-> None,
                          bothReady |-> FALSE, timers |-> {}, p |-> p2]
                    ELSE [success |-> TRUE, error |-> None, isOfferer |-> FALSE,
                          partnerId |-> initiatorId, bothReady |-> TRUE,
                          timers |-> {},
                          p |-> [p2 EXCEPT
                                   !.userModes = MapSet(@, initiatorId, newMode),
                                   !.sessions =
                                       IF MapHas(@, pairId)
                                       THEN MapSet(@, pairId,
                                              [@[pairId] EXCEPT
                                                 !.switches = Append(@,
                                                     [from |-> p2.sessions[pairId].mode,
                                                      to |-> newMode]),
                                                 !.mode = newMode])
                                       ELSE @]]
            ELSE [success |-> TRUE, error |-> None, isOfferer |-> TRUE,
                  partnerId |-> partnerId, bothReady |-> FALSE,
                  timers |-> {[partnerId |-> partnerId, userId |-> userId,
                               due |-> t + modeSwitchTimeout]},
                  p |-> [p1 EXCEPT
                           !.modeSwitchPending = MapSet(@, partnerId, userId),
                           !.sessions =
                               IF MapHas(@, generatePairId(userId, partnerId))
                               THEN [@ EXCEPT
                                       ![generatePairId(userId, partnerId)].mode = newMode]
                               ELSE @]]

\* switchMode(userId, partnerId, newMode) at time t; timers is the set of
\* setTimeout callbacks the call schedules
switchMode(p, userId, partnerId, newMode, t) ==
    IF getPair(p, userId) # partnerId
    THEN [success |-> FALSE, error |-> "Users not paired", isOfferer |-> FALSE,
          partnerId |-> None, bothReady |-> FALSE, timers |-> {}, p |-> p]
    ELSE IF newMode \notin {"text", "video", "voice"}
    THEN [success |-> FALSE, error |-> "Invalid mode", isOfferer |-> FALSE,
          partnerId |-> None, bothReady |-> FALSE, timers |-> {}, p |-> p]
    ELSE LET p1 == [p EXCEPT !.userModes = MapSet(@, userId, newMode)]
         IN IF MapHas(p1.modeSwitchPending, userId)
            THEN LET initiatorId == p1.modeSwitchPending[userId]
                     p2 == [p1 EXCEPT !.modeSwitchPending = MapDelete(@, userId)]
                     pairId == generatePairId(userId, initiatorId)
                 IN IF getPair(p2, initiatorId) # userId
                    THEN [success |-> FALSE,
                          error |-> "Pairing changed during mode switch",
                          isOfferer |-> FALSE, partnerId |-> None,
                          bothReady |-> FALSE, timers |-> {}, p |-> p2]
                    ELSE [success |-> TRUE, error |-> None, isOfferer |-> FALSE,
                          partnerId |-> initiatorId, bothReady |-> TRUE,
                          timers |-> {},
                          p |-> [p2 EXCEPT
                                   !.userModes = MapSet(@, initiatorId, newMode),
                                   !.sessions =
                                       IF MapHas(@, pairId)
                                       THEN MapSet(@, pairId,
                                              [@[pairId] EXCEPT
                                                 !.switches = Append(@,
                                                     [from |-> p2.sessions[pairId].mode,
                                                      to |-> newMode]),
                                                 !.mode = newMode])
                                       ELSE @]]
            ELSE [success |-> TRUE, error |-> None, isOfferer |-> TRUE,
                  partnerId |-> partnerId, bothReady |-> FALSE,
                  timers |-> {[partnerId |-> partnerId, userId |-> userId,
                               due |-> t + modeSwitchTimeout]},
                  p |-> [p1 EXCEPT !.modeSwitchPending = MapSet(@, partnerId, userId)]]

\* a setTimeout callback that leaves the pending entry in place
modeSwitchExpireKeeps(p, timer) == p

\* the setTimeout callback of switchMode
modeSwitchExpire(p, timer) ==
    IF MapHas(p.modeSwitchPending, timer.partnerId)
       /\ p.modeSwitchPending[timer.partnerId] = timer.userId
    THEN [p EXCEPT !.modeSwitchPending = MapDelete(@, timer.partnerId)]
    ELSE p

\* incrementMessageCount(userId)
incrementMessageCount(p, userId) ==
    IF ~MapHas(p.pairs, userId) THEN p
    ELSE LET pairId == generatePairId(userId, p.pairs[userId])
         IN IF MapHas(p.sessions, pairId)
            THEN [p EXCEPT !.sessions[pairId].messageCount = @ + 1]
            ELSE p

(* ---------------------------------------------------------------------- *)
(* SecurityManager                                                         *)
(* ---------------------------------------------------------------------- *)
SecurityManagerInit ==
    [rateLimits |-> EmptyMap,      \* userId -> [messages, skips, reports]
     ipConnections |-> EmptyMap,   \* ip -> [connections, lastConnection]
     bannedIPs |-> EmptyMap,       \* ip -> [until, reason, bannedAt]
     abuseTracking |-> EmptyMap]   \* userId -> [messageCount, skipCount, reportCount, startTime]

RateLimitActions == {"messages", "skips", "reports"}

rateLimitConfig ==
    [messages |-> [limit |-> DEFAULT_RATE_LIMIT_MESSAGES,
                   window |-> DEFAULT_RATE_LIMIT_WINDOW_MS],
     skips |-> [limit |-> DEFAULT_RATE_LIMIT_SKIPS,
                window |-> DEFAULT_RATE_LIMIT_WINDOW_MS],
     reports |-> [limit |-> DEFAULT_RATE_LIMIT_REPORTS,
                  window |-> DEFAULT_RATE_LIMIT_REPORTS_WINDOW_MS]]

\* actionArray.filter(time => now - time < window)
Recent(times, t, window) == SelectSeq(times, LAMBDA time : t - time < window)

\* a checkRateLimit that rejects one attempt later
checkRateLimitOffByOne(s, userId, action, t) ==
    IF action \notin RateLimitActions
    THEN [ret |-> TRUE, s |-> s]
    ELSE LET userLimits == IF MapHas(s.rateLimits, userId)
                           THEN s.rateLimits[userId]
                           ELSE [messages |-> <<>>, skips |-> <<>>, reports |-> <<>>]
             recentActions == Recent(userLimits[action], t, rateLimitConfig[action].window)
         IN IF Len(recentActions) > rateLimitConfig[action].limit
            THEN [ret |-> FALSE,
                  s |-> [s EXCEPT !.rateLimits = MapSet(@, userId,
                            [userLimits EXCEPT ![action] = recentActions])]]
            ELSE [ret |-> TRUE,
                  s |-> [s EXCEPT !.rateLimits = MapSet(@, userId,
                            [userLimits EXCEPT ![action] = Append(recentActions, t)])]]

\* checkRateLimit(userId, action) at time t
checkRateLimit(s, userId, action, t) ==
    IF action \notin RateLimitActions
    THEN [ret |-> TRUE, s |-> s]
    ELSE LET userLimits == IF MapHas(s.rateLimits, userId)
                           THEN s.rateLimits[userId]
                           ELSE [messages |-> <<>>, skips |-> <<>>, reports |-> <<>>]
             recentActions == Recent(userLimits[action], t, rateLimitConfig[action].window)
         IN IF Len(recentActions) >= rateLimitConfig[action].limit
            THEN [ret |-> FALSE,
                  s |-> [s EXCEPT !.rateLimits = MapSet(@, userId,
                            [userLimits EXCEPT ![action] = recentActions])]]
            ELSE [ret |-> TRUE,
                  s |-> [s EXCEPT !.rateLimits = MapSet(@, userId,
                            [userLimits EXCEPT ![action] = Append(recentActions, t)])]]

\* a trackIPConnection that records the attempts it rejects
trackIPConnectionRecordsAll(s, ip, t) ==
    LET connectionsOfIp == IF MapHas(s.ipConnections, ip)
                           THEN s.ipConnections[ip].connections ELSE <<>>
        lastConnection == IF MapHas(s.ipConnections, ip)
                          THEN s.ipConnections[ip].lastConnection ELSE t
        recent == Recent(connectionsOfIp, t, ipConnectionWindow)
    IN IF Len(recent) >= maxConnectionsPerIP
       THEN [ret |-> FALSE,
             s |-> [s EXCEPT !.ipConnections = MapSet(@, ip,
                       [connections |-> Append(recent, t),
                        lastConnection |-> lastConnection])]]
       ELSE [ret |-> TRUE,
             s |-> [s EXCEPT !.ipConnections = MapSet(@, ip,
                       [connections |-> Append(recent, t), lastConnection |-> t])]]

\* trackIPConnection(ip) at time t
trackIPConnection(s, ip, t) ==
    LET connectionsOfIp == IF MapHas(s.ipConnections, ip)
                           THEN s.ipConnections[ip].connections ELSE <<>>
        lastConnection == IF MapHas(s.ipConnections, ip)
                          THEN s.ipConnections[ip].lastConnection ELSE t
        recent == Recent(connectionsOfIp, t, ipConnectionWindow)
    IN IF Len(recent) >= maxConnectionsPerIP
       THEN [ret |-> FALSE,
             s |-> [s EXCEPT !.ipConnections = MapSet(@, ip,
                       [connections |-> recent, lastConnection |-> lastConnection])]]
       ELSE [ret |-> TRUE,
             s |-> [s EXCEPT !.ipConnections = MapSet(@, ip,
                       [connections |-> Append(recent, t), lastConnection |-> t])]]

\* an isIPBanned that lets a ban end one tick early
isIPBannedEndsEarly(s, ip, t) ==
    IF ~MapHas(s.bannedIPs, ip)
    THEN [ret |-> FALSE, s |-> s]
    ELSE IF t >= s.bannedIPs[ip].until
    THEN [ret |-> FALSE, s |-> [s EXCEPT !.bannedIPs = MapDelete(@, ip)]]
    ELSE [ret |-> TRUE, s |-> s]

\* isIPBanned(ip) at time t: an expired ban is removed on read
isIPBanned(s, ip, t) ==
    IF ~MapHas(s.bannedIPs, ip)
    THEN [ret |-> FALSE, s |-> s]
    ELSE IF t > s.bannedIPs[ip].until
    THEN [ret |-> FALSE, s |-> [s EXCEPT !.bannedIPs = MapDelete(@, ip)]]
    ELSE [ret |-> TRUE, s |-> s]

\* banIP(ip, duration, reason) at time t
banIP(s, ip, duration, reason, t) ==
    [s EXCEPT !.bannedIPs = MapSet(@, ip,
        [until |-> t + duration, reason |-> reason, bannedAt |-> t])]

\* the message field of a text-message frame: whether it is a string, its
\* length, whether one of dangerousPatterns matches it and whether it holds a
\* word of the profanity list
Text(isString, length, dangerous, profane) ==
    [isString |-> isString, length |-> length, dangerous |-> dangerous,
     profane |-> profane]

Texts ==
    {Text(TRUE, 1, FALSE, FALSE), Text(TRUE, MAX_MESSAGE_LENGTH, FALSE, FALSE),
     Text(TRUE, MAX_MESSAGE_LENGTH + 1, FALSE, FALSE), Text(TRUE, 0, FALSE, FALSE),
     Text(TRUE, 1, TRUE, FALSE), Text(TRUE, 1, FALSE, TRUE), Text(TRUE, 1, TRUE, TRUE),
     Text(FALSE, 0, FALSE, FALSE)}

\* filterProfanity(message): the listed words are starred out, the length stays
filterProfanity(message) == [message EXCEPT !.profane = FALSE]

\* a validateMessage without the dangerous-pattern check
validateMessageNoPatterns(message) ==
    IF ~message.isString
    THEN [valid |-> FALSE, reason |-> "Invalid type", filtered |-> None]
    ELSE IF message.length = 0
    THEN [valid |-> FALSE, reason |-> "Empty message", filtered |-> None]
    ELSE IF message.length > MAX_MESSAGE_LENGTH
    THEN [valid |-> FALSE, reason |-> "Message too long", filtered |-> None]
    ELSE [valid |-> TRUE, reason |-> None, filtered |-> filterProfanity(message)]

\* validateMessage(message)
validateMessage(message) ==
    IF ~message.isString
    THEN [valid |-> FALSE, reason |-> "Invalid type", filtered |-> None]
    ELSE IF message.length = 0
    THEN [valid |-> FALSE, reason |-> "Empty message", filtered |-> None]
    ELSE IF message.length > MAX_MESSAGE_LENGTH
    THEN [valid |-> FALSE, reason |-> "Message too long", filtered |-> None]
    ELSE IF message.dangerous
    THEN [valid |-> FALSE, reason |-> "Dangerous content detected", filtered |-> None]
    ELSE [valid |-> TRUE, reason |-> None, filtered |-> filterProfanity(message)]

\* trackUserAction(userId, action) at time t
trackUserAction(s, userId, action, t) ==
    LET tracking == IF MapHas(s.abuseTracking, userId)
                    THEN s.abuseTracking[userId]
                    ELSE [messageCount |-> 0, skipCount |-> 0, reportCount |-> 0,
                          startTime |-> t]
    IN [s EXCEPT !.abuseTracking = MapSet(@, userId,
          IF action = "message"
          THEN [tracking EXCEPT !.messageCount = @ + 1]
          ELSE IF action = "skip"
          THEN [tracking EXCEPT !.skipCount = @ + 1]
          ELSE IF action = "report"
          THEN [tracking EXCEPT !.reportCount = @ + 1]
          ELSE tracking)]

\* detectAbusePatterns(userId) at time t, as a set; messageCount / duration >
\* threshold is compared without the division
detectAbusePatterns(s, userId, t) ==
    IF ~MapHas(s.abuseTracking, userId)
    THEN {}
    ELSE LET tracking == s.abuseTracking[userId]
             sessionDuration == t - tracking.startTime
         IN (IF sessionDuration > ABUSE_SESSION_MIN_DURATION_SEC
                /\ tracking.messageCount > ABUSE_MESSAGE_RATE_THRESHOLD * sessionDuration
             THEN {"spammer"} ELSE {})
            \cup (IF tracking.skipCount > ABUSE_SKIP_COUNT_THRESHOLD
                  THEN {"skip_abuser"} ELSE {})
            \cup (IF tracking.reportCount >= ABUSE_REPORT_COUNT_THRESHOLD
                  THEN {"harasser"} ELSE {})

(* ---------------------------------------------------------------------- *)
(* ConnectionManager                                                       *)
(* ---------------------------------------------------------------------- *)
\* a message a client receives: to is the transport it is written to, user the
\* userId it was addressed to (None when written to the transport directly)
Msg(type) ==
    [to |-> 0, user |-> None, type |-> type, partnerId |-> None, isOfferer |-> None,
     from |-> None, count |-> 0, message |-> None]

\* ws.readyState === 1
IsOpen(wss, ws) == wss[ws] = "open"

\* removeConnection(userId): ws.close(1000) on an open transport starts its
\* closing handshake (the 'close' event comes later), then the entry is dropped
removeConnection(conns, wss, userId) ==
    IF ~MapHas(conns, userId)
    THEN [conns |-> conns, wss |-> wss]
    ELSE [conns |-> MapDelete(conns, userId),
          wss |-> IF IsOpen(wss, conns[userId].ws)
                  THEN [wss EXCEPT ![conns[userId].ws] = "closing"]
                  ELSE wss]

\* addConnection(userId, ws, metadata) with maxConnectionsPerUser === 1
addConnection(conns, wss, userId, ws) ==
    LET r == IF MapHas(conns, userId)
             THEN removeConnection(conns, wss, userId)
             ELSE [conns |-> conns, wss |-> wss]
    IN [conns |-> MapSet(r.conns, userId, [ws |-> ws]),
        wss |-> r.wss]

\* the liveness fields at construction: no record, the interval started
HeartbeatInit ==
    [records |-> EmptyMap, pongHandlers |-> {}, due |-> heartbeatInterval]

\* the liveness side of addConnection(userId, ws) at time t: a fresh record,
\* and _setupWebSocketHandlers' pong handler for userId on ws
addConnectionLiveness(h, userId, ws, t) ==
    [h EXCEPT !.records = MapSet(@, userId, [isAlive |-> TRUE, lastPing |-> t]),
              !.pongHandlers = @ \cup {<<ws, userId>>}]

\* the liveness side of removeConnection(userId)
removeConnectionLiveness(h, userId) ==
    [h EXCEPT !.records = MapDelete(@, userId)]

\* ws.on('pong') of transport ws at time t: every handler set up on ws marks
\* the record its userId has now
pong(h, ws, t) ==
    [h EXCEPT !.records =
        [u \in DOMAIN @ |-> IF <<ws, u>> \in h.pongHandlers
                            THEN [isAlive |-> TRUE, lastPing |-> t]
                            ELSE @[u]]]

\* the userIds _performHeartbeat collects in deadConnections at time t
deadConnections(h, t) ==
    {u \in DOMAIN h.records :
        \/ ~h.records[u].isAlive
        \/ t - h.records[u].lastPing > connectionTimeout}

\* a _performHeartbeat that probes without marking the record not-alive
performHeartbeatNoMark(h, conns, wss, t) ==
    LET dead == deadConnections(h, t)
    IN [h |-> [h EXCEPT !.records = [u \in DOMAIN @ \ dead |-> @[u]]],
        conns |-> [u \in DOMAIN conns \ dead |-> conns[u]],
        wss |-> [ws \in DOMAIN wss |->
                   IF wss[ws] = "open"
                      /\ \E u \in dead : MapHas(conns, u) /\ conns[u].ws = ws
                   THEN "closing" ELSE wss[ws]]]

\* _performHeartbeat() at time t: the dead are removed with removeConnection,
\* the others are marked not-alive and pinged
performHeartbeat(h, conns, wss, t) ==
    LET dead == deadConnections(h, t)
    IN [h |-> [h EXCEPT !.records =
                   [u \in DOMAIN @ \ dead |-> [@[u] EXCEPT !.isAlive = FALSE]]],
        conns |-> [u \in DOMAIN conns \ dead |-> conns[u]],
        wss |-> [ws \in DOMAIN wss |->
                   IF wss[ws] = "open"
                      /\ \E u \in dead : MapHas(conns, u) /\ conns[u].ws = ws
                   THEN "closing" ELSE wss[ws]]]

\* sendToUser(userId, message): the messages written (none when it returns false)
sendToUser(conns, wss, userId, message) ==
    IF ~MapHas(conns, userId) \/ ~IsOpen(wss, conns[userId].ws)
    THEN <<>>
    ELSE <<[message EXCEPT !.to = conns[userId].ws, !.user = userId]>>

\* ws.send on the transport itself (_sendError and the size check)
sendToWs(wss, ws, message) ==
    IF IsOpen(wss, ws) THEN <<[message EXCEPT !.to = ws]>> ELSE <<>>

RECURSIVE broadcastSeq(_, _, _, _)
broadcastSeq(conns, wss, message, us) ==
    IF us = <<>> THEN <<>>
    ELSE sendToUser(conns, wss, Head(us), message)
         \o broadcastSeq(conns, wss, message, Tail(us))

\* broadcastUserCount(): user-count to every registered open connection
broadcastUserCount(conns, wss) ==
    broadcastSeq(conns, wss,
                 [Msg("user-count") EXCEPT !.count = Cardinality(DOMAIN conns)],
                 SortedUsers)

(* ---------------------------------------------------------------------- *)
(* State                                                                   *)
(* ---------------------------------------------------------------------- *)
VARIABLES
    qm,           \* the QueueManager
    pm,           \* the PairingManager
    timers,       \* pending setTimeout callbacks of switchMode
    connections,  \* ConnectionManager.connections: userId -> [ws]
    wsState,      \* per transport: "new", "open", "closing" (close event pending), "closed"
    wsUser,       \* per transport: the userId variable of its connection closure
    now,          \* Date.now()
    sent,         \* per transport: the messages the last handler wrote to it
    pairedNotified, \* history kept for the relay properties: <<t, y>> when a
                  \* 'paired' naming y has been written to the open transport t
    sm,           \* the SecurityManager
    wsIp,         \* per transport: ws.ip, the address its upgrade came from
    httpReply,    \* status line the last upgrade attempt was answered with (0: the
                  \* last event was not an upgrade)
    returned,     \* what the last direct call of a PairingManager method returned
    heartbeat     \* the liveness side of the ConnectionManager: isAlive and
                  \* lastPing of each connection record, the pong handlers set
                  \* up on the transports, and when the heartbeat interval fires

vars == <<qm, pm, timers, connections, wsState, wsUser, now, sent, pairedNotified,
          sm, wsIp, httpReply, heartbeat, returned>>

Init ==
    /\ qm = QueueManagerInit
    /\ pm = PairingManagerInit
    /\ timers = {}
    /\ connections = EmptyMap
    /\ wsState = [t \in Transports |-> "new"]
    /\ wsUser = [t \in Transports |-> None]
    /\ now = 0
    /\ sent = [t \in Transports |-> <<>>]
    /\ pairedNotified = {}
    /\ sm = SecurityManagerInit
    /\ wsIp = [t \in Transports |-> None]
    /\ httpReply = 0
    /\ heartbeat = HeartbeatInit
    /\ returned = NoCall

\* what each transport receives of the messages out, in call order
Written(out) == [t \in Transports |-> SelectSeq(out, LAMBDA m : m.to = t)]

\* all messages written by a handler, as a set
AllWritten(snt) == UNION {{snt[t][i] : i \in 1..Len(snt[t])} : t \in Transports}

(* ---------------------------------------------------------------------- *)
(* Server front: upgrade, frames, close                                    *)
(* ---------------------------------------------------------------------- *)
\* wss.on('connection'): a new transport is accepted
Connect(t) ==
    /\ wsState[t] = "new"
    /\ \A t2 \in Transports : t2 < t => wsState[t2] # "new"
    /\ wsState' = [wsState EXCEPT ![t] = "open"]
    /\ sent' = Written(broadcastUserCount(connections, wsState'))
    /\ UNCHANGED <<qm, pm, timers, connections, wsUser, now>>

\* handleUserDisconnect that reads the partner's mode from the PairingManager
\* after breakPair has dropped it
handleUserDisconnectModeAfterBreak(q, p, conns, wss, userId, t) ==
    LET q1 == removeFromQueue(q, userId).q
        r == breakPair(p, userId)
    IN IF ~r.success
       THEN [q |-> q1, p |-> r.p, out |-> <<>>]
       ELSE LET o1 == sendToUser(conns, wss, r.partnerId, Msg("partner-disconnected"))
                partnerMode == getUserMode(r.p, r.partnerId)
            IN IF partnerMode = None
               THEN [q |-> q1, p |-> r.p, out |-> o1]
               ELSE [q |-> addToQueue(q1, r.partnerId, partnerMode, 0, t).q,
                     p |-> r.p,
                     out |-> o1 \o sendToUser(conns, wss, r.partnerId, Msg("waiting"))]

\* handleUserDisconnect(userId) of the server: managers and messages afterwards
handleUserDisconnect(q, p, conns, wss, userId, t) ==
    LET q1 == removeFromQueue(q, userId).q
        r == breakPair(p, userId)
    IN IF ~r.success
       THEN [q |-> q1, p |-> r.p, out |-> <<>>]
       ELSE LET o1 == sendToUser(conns, wss, r.partnerId, Msg("partner-disconnected"))
            IN IF r.sessionMode = None
               THEN [q |-> q1, p |-> r.p, out |-> o1]
               ELSE [q |-> addToQueue(q1, r.partnerId, r.sessionMode, 0, t).q,
                     p |-> r.p,
                     out |-> o1 \o sendToUser(conns, wss, r.partnerId, Msg("waiting"))]

\* ws.on('close'): of a transport the server closed earlier ("closing"), or of
\* an open one that its client or the network closes now
CloseEvent(t) ==
    /\ wsState[t] \in {"open", "closing"}
    /\ LET ws1 == [wsState EXCEPT ![t] = "closed"]
           userId == wsUser[t]
       IN IF userId # None
          THEN LET h == handleUserDisconnect(qm, pm, connections, ws1, userId, now)
                   c == removeConnection(connections, ws1, userId)
               IN /\ qm' = h.q
                  /\ pm' = h.p
                  /\ connections' = c.conns
                  /\ wsState' = c.wss
                  /\ sent' = Written(h.out \o broadcastUserCount(c.conns, c.wss))
          ELSE /\ wsState' = ws1
               /\ sent' = Written(broadcastUserCount(connections, ws1))
               /\ UNCHANGED <<qm, pm, connections>>
    \* the closure of a closed transport is never read again
    /\ wsUser' = [wsUser EXCEPT ![t] = None]
    /\ UNCHANGED <<timers, now>>

\* a frame arrives on an open transport
Receiving(t) == wsState[t] = "open"

ErrorMsg == Msg("error")

\* an error reply with its text
ErrorText(text) == [ErrorMsg EXCEPT !.message = text]

\* what makes the front or route() turn a frame down before any handler: it
\* is no JSON, it has no type, a required field of its type's schema is
\* missing, or no handler is registered for its type
RejectKinds == {"undecodable", "no-type", "missing-field", "unknown-type"}

\* ws.on('message') and route() for a frame of size bytes that is turned down:
\* a frame above MAX_MESSAGE_SIZE is answered 'Message too large' whatever it
\* holds; JSON.parse throws into the front's catch; a frame without type
\* returns false without reply; the other two get route()'s error
RecvRejected(t, size, kind) ==
    /\ Receiving(t)
    /\ sent' = Written(
          IF size > MAX_MESSAGE_SIZE
          THEN sendToWs(wsState, t, ErrorText("Message too large"))
          ELSE IF kind = "undecodable"
          THEN sendToWs(wsState, t, ErrorText("Invalid message format"))
          ELSE IF kind = "no-type"
          THEN <<>>
          ELSE IF kind = "missing-field"
          THEN sendToWs(wsState, t, ErrorText("Invalid message format"))
          ELSE sendToWs(wsState, t, ErrorText("Unknown message type")))
    /\ UNCHANGED <<qm, pm, timers, connections, wsState, wsUser, now>>

\* the message types of MessageRouter.schemas
SchemaTypes ==
    {"identify", "join-text", "join-video", "join-voice", "text-message", "offer",
     "answer", "ice-candidate", "disconnect", "typing-start", "typing-stop",
     "report-user", "video-request", "video-request-accept",
     "video-request-decline", "video-request-cancel", "mode-switch-to-video",
     "ping"}

\* the message types _registerDefaultHandlers registers a handler for
RegisteredTypes ==
    {"identify", "join-text", "join-video", "text-message", "offer", "answer",
     "ice-candidate", "disconnect", "typing-start", "typing-stop", "report-user",
     "video-request", "video-request-accept", "video-request-decline",
     "video-request-cancel", "mode-switch-to-video"}

\* a frame with all fields of its schema whose type has no registered
\* handler: handlers.get(type) is undefined, route() answers 'Unknown message
\* type'
RecvUnregistered(t, type) ==
    /\ type \in SchemaTypes \ RegisteredTypes
    /\ RecvRejected(t, MAX_MESSAGE_SIZE, "unknown-type")

\* {type:'identify', userId, fingerprint?}: registration in the front, then the
\* identify handler (trackFingerprint never reports suspicious: nothing
\* increments a fingerprint's reports or bans)
RecvIdentify(t, userId, hasFingerprint) ==
    /\ Receiving(t)
    /\ LET a == addConnection(connections, wsState, userId, t)
       IN /\ connections' = a.conns
          /\ wsState' = a.wss
          /\ sent' = Written(IF hasFingerprint THEN <<>>
                             ELSE sendToWs(a.wss, t, ErrorMsg))
    /\ wsUser' = [wsUser EXCEPT ![t] = userId]
    /\ UNCHANGED <<qm, pm, timers, now>>

PairedMsg(mode, partnerId, offerer) ==
    IF mode = "video"
    THEN [Msg("paired") EXCEPT !.partnerId = partnerId,
                               !.isOfferer = IF offerer THEN "true" ELSE "false"]
    ELSE [Msg("paired") EXCEPT !.partnerId = partnerId]

\* a join handler that makes the second user of the match the offerer
joinHandlerSecondOffers(q, p, conns, wss, userId, mode, t) ==
    LET a == addToQueue(q, userId, mode, 0, t)
    IN IF ~a.ret
       THEN [q |-> a.q, p |-> p, out |-> sendToUser(conns, wss, userId, ErrorMsg)]
       ELSE LET m == matchUsers(a.q, mode)
            IN IF m.match # <<>>
               THEN LET c == createPair(p, m.match[1], m.match[2], mode)
                    IN [q |-> m.q, p |-> c.p,
                        out |-> sendToUser(conns, wss, m.match[1],
                                           PairedMsg(mode, m.match[2], FALSE))
                                \o sendToUser(conns, wss, m.match[2],
                                              PairedMsg(mode, m.match[1], TRUE))]
               ELSE [q |-> m.q, p |-> p,
                     out |-> sendToUser(conns, wss, userId, Msg("waiting"))]

\* the join-text / join-video handler
joinHandler(q, p, conns, wss, userId, mode, t) ==
    LET a == addToQueue(q, userId, mode, 0, t)
    IN IF ~a.ret
       THEN [q |-> a.q, p |-> p, out |-> sendToUser(conns, wss, userId, ErrorMsg)]
       ELSE LET m == matchUsers(a.q, mode)
            IN IF m.match # <<>>
               THEN LET c == createPair(p, m.match[1], m.match[2], mode)
                    IN [q |-> m.q, p |-> c.p,
                        out |-> sendToUser(conns, wss, m.match[1],
                                           PairedMsg(mode, m.match[2], TRUE))
                                \o sendToUser(conns, wss, m.match[2],
                                              PairedMsg(mode, m.match[1], FALSE))]
               ELSE [q |-> m.q, p |-> p,
                     out |-> sendToUser(conns, wss, userId, Msg("waiting"))]

JoinModes == {"text", "video"}

\* {type:'join-text' | 'join-video', userId}
RecvJoin(t, userId, mode) ==
    /\ Receiving(t)
    /\ LET h == joinHandler(qm, pm, connections, wsState, userId, mode, now)
       IN /\ qm' = h.q
          /\ pm' = h.p
          /\ sent' = Written(h.out)
    /\ UNCHANGED <<timers, connections, wsState, wsUser, now>>

\* MessageRouter._handleDisconnect(userId)
routerHandleDisconnect(q, p, conns, wss, userId, t) ==
    LET q1 == removeFromQueue(q, userId).q
        r == breakPair(p, userId)
    IN IF ~r.success
       THEN [q |-> q1, p |-> r.p, out |-> <<>>]
       ELSE LET o1 == sendToUser(conns, wss, r.partnerId, Msg("partner-disconnected"))
                partnerMode == getUserMode(r.p, r.partnerId)
            IN IF partnerMode = None
               THEN [q |-> q1, p |-> r.p, out |-> o1]
               ELSE [q |-> addToQueue(q1, r.partnerId, partnerMode, 0, t).q,
                     p |-> r.p,
                     out |-> o1 \o sendToUser(conns, wss, r.partnerId, Msg("waiting"))]

\* {type:'disconnect', userId}
RecvDisconnect(t, userId) ==
    /\ Receiving(t)
    /\ LET h == routerHandleDisconnect(qm, pm, connections, wsState, userId, now)
       IN /\ qm' = h.q
          /\ pm' = h.p
          /\ sent' = Written(h.out)
    /\ UNCHANGED <<timers, connections, wsState, wsUser, now>>

VideoModeReady(offerer, partnerId) ==
    [Msg("video-mode-ready") EXCEPT !.partnerId = partnerId,
                                    !.isOfferer = IF offerer THEN "true" ELSE "false"]

\* a mode-switch-to-video handler that tells the partner the requester's role
modeSwitchHandlerSameRole(p, conns, wss, userId, partnerId, t) ==
    LET r == switchMode(p, userId, partnerId, "video", t)
    IN [p |-> r.p,
        timers |-> r.timers,
        out |-> IF ~r.success
                THEN sendToUser(conns, wss, userId, ErrorMsg)
                ELSE IF r.bothReady
                THEN sendToUser(conns, wss, userId,
                                VideoModeReady(r.isOfferer, r.partnerId))
                     \o sendToUser(conns, wss, r.partnerId,
                                   VideoModeReady(r.isOfferer, userId))
                ELSE <<>>]

\* the mode-switch-to-video handler
modeSwitchHandler(p, conns, wss, userId, partnerId, t) ==
    LET r == switchMode(p, userId, partnerId, "video", t)
    IN [p |-> r.p,
        timers |-> r.timers,
        out |-> IF ~r.success
                THEN sendToUser(conns, wss, userId, ErrorMsg)
                ELSE IF r.bothReady
                THEN sendToUser(conns, wss, userId,
                                VideoModeReady(r.isOfferer, r.partnerId))
                     \o sendToUser(conns, wss, r.partnerId,
                                   VideoModeReady(~r.isOfferer, userId))
                ELSE <<>>]

\* the switch history of every session is still below the model's bound
SwitchesBelowBound ==
    \A id \in DOMAIN pm.sessions : Len(pm.sessions[id].switches) < MaxSwitches

\* {type:'mode-switch-to-video', userId, partnerId}
RecvModeSwitch(t, userId, partnerId) ==
    /\ Receiving(t)
    /\ SwitchesBelowBound
    /\ LET h == modeSwitchHandler(pm, connections, wsState, userId, partnerId, now)
       IN /\ pm' = h.p
          /\ timers' = timers \cup h.timers
          /\ sent' = Written(h.out)
    /\ UNCHANGED <<qm, connections, wsState, wsUser, now>>

\* a relayed message: type, sender
RelayMsg(type, from) == [Msg(type) EXCEPT !.from = from]

\* the messages counted in every session are still below the model's bound
MessagesBelowBound ==
    \A id \in DOMAIN pm.sessions : pm.sessions[id].messageCount < MaxMessages


\* a text-message handler that counts the message before it validates it
textMessageHandlerCountsFirst(p, conns, wss, userId, targetId, allowed, text) ==
    LET validation == validateMessage(text)
    IN IF ~allowed
       THEN [p |-> p, relayed |-> FALSE,
             out |-> sendToUser(conns, wss, userId, ErrorText("Slow down!"))]
       ELSE IF ~validation.valid
       THEN [p |-> incrementMessageCount(p, userId), relayed |-> FALSE,
             out |-> sendToUser(conns, wss, userId,
                                ErrorText("Message rejected: " \o validation.reason))]
       ELSE [p |-> incrementMessageCount(p, userId), relayed |-> TRUE,
             out |-> sendToUser(conns, wss, targetId,
                        [RelayMsg("text-message", userId) EXCEPT
                           !.message = validation.filtered])]

\* the text-message handler; allowed is the answer of
\* checkRateLimit(userId, 'messages')
textMessageHandler(p, conns, wss, userId, targetId, allowed, text) ==
    LET validation == validateMessage(text)
    IN IF ~allowed
       THEN [p |-> p, relayed |-> FALSE,
             out |-> sendToUser(conns, wss, userId, ErrorText("Slow down!"))]
       ELSE IF ~validation.valid
       THEN [p |-> p, relayed |-> FALSE,
             out |-> sendToUser(conns, wss, userId,
                                ErrorText("Message rejected: " \o validation.reason))]
       ELSE [p |-> incrementMessageCount(p, userId), relayed |-> TRUE,
             out |-> sendToUser(conns, wss, targetId,
                        [RelayMsg("text-message", userId) EXCEPT
                           !.message = validation.filtered])]

\* {type:'text-message', userId, targetId, message}
RecvTextMessage(t, userId, targetId, allowed, text) ==
    /\ Receiving(t)
    /\ MessagesBelowBound
    /\ LET h == textMessageHandler(pm, connections, wsState, userId, targetId,
                                   allowed, text)
       IN /\ pm' = h.p
          /\ sent' = Written(h.out)
    /\ UNCHANGED <<qm, timers, connections, wsState, wsUser, now>>

SignalTypes == {"offer", "answer", "ice-candidate"}
TypingTypes == {"typing-start", "typing-stop"}

\* {type:'offer' | 'answer' | 'ice-candidate', userId, targetId, ...}: signalHandler;
\* {type:'typing-start' | 'typing-stop', userId, targetId}: the typing handlers
RecvSignal(t, type, userId, targetId) ==
    /\ Receiving(t)
    /\ sent' = Written(sendToUser(connections, wsState, targetId, RelayMsg(type, userId)))
    /\ UNCHANGED <<qm, pm, timers, connections, wsState, wsUser, now>>

VideoRequestTypes ==
    {"video-request", "video-request-accept", "video-request-decline",
     "video-request-cancel"}

\* {type:'video-request' | '-accept' | '-decline' | '-cancel', to, from}
RecvVideoRequest(t, type, to, from) ==
    /\ Receiving(t)
    /\ sent' = Written(IF getPair(pm, from) = to
                       THEN sendToUser(connections, wsState, to, RelayMsg(type, from))
                       ELSE <<>>)
    /\ UNCHANGED <<qm, pm, timers, connections, wsState, wsUser, now>>

\* a setTimeout callback of switchMode runs once its delay has elapsed
TimerFire(timer) ==
    /\ timer \in timers
    /\ timer.due <= now
    /\ pm' = modeSwitchExpire(pm, timer)
    /\ timers' = timers \ {timer}
    /\ sent' = Written(<<>>)
    /\ UNCHANGED <<qm, connections, wsState, wsUser, now>>

\* time passes; due timers run before the clock moves on
Tick ==
    /\ now < MaxTime
    /\ \A timer \in timers : timer.due > now
    /\ now' = now + 1
    /\ sent' = Written(<<>>)
    /\ UNCHANGED <<qm, pm, timers, connections, wsState, wsUser>>

\* time passes up to a given last value; due timers run before the clock
\* moves on
TickUpTo(last) ==
    /\ now < last
    /\ \A timer \in timers : timer.due > now
    /\ now' = now + 1
    /\ sent' = Written(<<>>)
    /\ UNCHANGED <<qm, pm, timers, connections, wsState, wsUser>>

Ips == {"ip1", "ip2"}

\* the socket of an upgrade request: the first transport that was never used,
\* or that was closed and that no connection record refers to any more
Unused(t) ==
    \/ wsState[t] = "new"
    \/ /\ wsState[t] = "closed"
       /\ wsUser[t] = None
       /\ \A u \in DOMAIN connections : connections[u].ws # t
FreeSocket(t) == Unused(t) /\ \A t2 \in Transports : t2 < t => ~Unused(t2)

\* server.on('upgrade') for a request from address ip, and wss.on('connection')
\* when it is admitted
Upgrade(t, ip) ==
    /\ FreeSocket(t)
    /\ LET b == isIPBanned(sm, ip, now)
           k == trackIPConnection(b.s, ip, now)
       IN IF b.ret
          THEN /\ httpReply' = 403
               /\ sm' = b.s
               /\ sent' = Written(<<>>)
               /\ UNCHANGED <<qm, pm, timers, connections, wsState, wsUser, now, wsIp>>
          ELSE IF ~k.ret
          THEN /\ httpReply' = 429
               /\ sm' = k.s
               /\ sent' = Written(<<>>)
               /\ UNCHANGED <<qm, pm, timers, connections, wsState, wsUser, now, wsIp>>
          ELSE /\ httpReply' = 101
               /\ sm' = k.s
               /\ wsIp' = [wsIp EXCEPT ![t] = ip]
               /\ wsState' = [wsState EXCEPT ![t] = "open"]
               /\ sent' = Written(broadcastUserCount(connections, wsState'))
               /\ UNCHANGED <<qm, pm, timers, connections, wsUser, now>>
    /\ UNCHANGED <<pairedNotified, heartbeat, returned>>

\* connectionManager.getConnection(userId)?.metadata?.ip: the address of the
\* transport that registered userId (None without connection)
ipOfUser(conns, ips, userId) ==
    IF MapHas(conns, userId) THEN ips[conns[userId].ws] ELSE None

\* the SecurityManager calls of handleUserDisconnect(userId)
disconnectAbuseCheck(s, conns, ips, userId, t) ==
    LET s1 == trackUserAction(s, userId, "skip", t)
        ip == ipOfUser(conns, ips, userId)
    IN IF "harasser" \in detectAbusePatterns(s1, userId, t) /\ ip # None
       THEN banIP(s1, ip, DEFAULT_BAN_DURATION, "Multiple reports", t)
       ELSE s1

\* ws.on('close') with the SecurityManager followed
CloseEventTracked(t) ==
    /\ CloseEvent(t)
    /\ sm' = IF wsUser[t] # None
             THEN disconnectAbuseCheck(sm, connections, wsIp, wsUser[t], now)
             ELSE sm
    /\ httpReply' = 0
    /\ UNCHANGED <<wsIp, pairedNotified, heartbeat, returned>>

\* {type:'report-user', userId, reportedId, reason}
RecvReport(t, userId, reportedId) ==
    /\ Receiving(t)
    /\ LET r == checkRateLimit(sm, userId, "reports", now)
       IN IF ~r.ret
          THEN /\ sm' = r.s
               /\ sent' = Written(sendToUser(connections, wsState, userId, ErrorMsg))
          ELSE /\ sm' = trackUserAction(r.s, reportedId, "report", now)
               /\ sent' = Written(<<>>)
    /\ httpReply' = 0
    /\ UNCHANGED <<qm, pm, timers, connections, wsState, wsUser, now, wsIp,
                   pairedNotified, heartbeat, returned>>

\* userIds of report-user frames
Reporters == {"r1", "r2", "r3", "r4", "r5"}

\* c connected from ip1 and identified on transport 1: the state after its
\* upgrade and its identify frame
InitReport ==
    /\ qm = QueueManagerInit
    /\ pm = PairingManagerInit
    /\ timers = {}
    /\ connections = MapSet(EmptyMap, "c", [ws |-> 1])
    /\ wsState = [t \in Transports |-> IF t = 1 THEN "open" ELSE "new"]
    /\ wsUser = [t \in Transports |-> IF t = 1 THEN "c" ELSE None]
    /\ now = 0
    /\ sent = Written(<<>>)
    /\ pairedNotified = {}
    /\ sm = trackIPConnection(SecurityManagerInit, "ip1", 0).s
    /\ wsIp = [t \in Transports |-> IF t = 1 THEN "ip1" ELSE None]
    /\ httpReply = 0
    /\ heartbeat = HeartbeatInit
    /\ returned = NoCall

\* Reports against c: report-user frames of five reporters naming c, further
\* upgrade attempts and transport close
NextReport ==
    \/ \E t \in Transports, r \in Reporters : RecvReport(t, r, "c")
    \/ \E t \in Transports, ip \in Ips : Upgrade(t, ip)
    \/ \E t \in Transports : CloseEventTracked(t)

SpecReport == InitReport /\ [][NextReport]_vars

\* {type:'disconnect', userId} with the SecurityManager followed:
\* _handleDisconnect tracks the skip and makes no other SecurityManager call
RecvDisconnectTracked(t, userId) ==
    /\ RecvDisconnect(t, userId)
    /\ sm' = trackUserAction(sm, userId, "skip", now)
    /\ httpReply' = 0
    /\ UNCHANGED <<wsIp, pairedNotified, heartbeat, returned>>

\* the skips tracked for userId are still below the model's bound
SkipsBelowBound(userId) ==
    MapHas(sm.abuseTracking, userId) => sm.abuseTracking[userId].skipCount < MaxSkips

\* Disconnects of a reported user: report-user frames of five reporters naming
\* c, c's disconnect frame and the close of a transport
NextAbuse ==
    \/ \E t \in Transports, r \in Reporters : RecvReport(t, r, "c")
    \/ \E t \in Transports : SkipsBelowBound("c") /\ RecvDisconnectTracked(t, "c")
    \/ \E t \in Transports : CloseEventTracked(t)

SpecAbuse == InitReport /\ [][NextAbuse]_vars

\* queueManager.addToQueue(userId, mode, priority), called on its own
AddToQueue(userId, mode, priority) ==
    /\ qm' = addToQueue(qm, userId, mode, priority, now).q
    /\ sent' = Written(<<>>)
    /\ UNCHANGED <<pm, timers, connections, wsState, wsUser, now>>

\* queueManager.removeFromQueue(userId), called on its own
RemoveFromQueue(userId) ==
    /\ qm' = removeFromQueue(qm, userId).q
    /\ sent' = Written(<<>>)
    /\ UNCHANGED <<pm, timers, connections, wsState, wsUser, now>>

\* queueManager.matchUsers(mode), called on its own
MatchUsers(mode) ==
    /\ qm' = matchUsers(qm, mode).q
    /\ sent' = Written(<<>>)
    /\ UNCHANGED <<pm, timers, connections, wsState, wsUser, now>>

\* priority levels of addToQueue: normal and high
Priorities == {0, 1}

\* the setInterval callback of startHeartbeat, firing when its interval ends
Heartbeat ==
    /\ now = heartbeat.due
    /\ LET r == performHeartbeat(heartbeat, connections, wsState, now)
       IN /\ heartbeat' = [r.h EXCEPT !.due = @ + heartbeatInterval]
          /\ connections' = r.conns
          /\ wsState' = r.wss
    /\ sent' = Written(<<>>)
    /\ UNCHANGED <<qm, pm, timers, wsUser, now>>

\* a pong frame arrives on transport t (solicited by a ping or not)
PongEvent(t) ==
    /\ wsState[t] \in {"open", "closing"}
    /\ heartbeat' = pong(heartbeat, t, now)
    /\ sent' = Written(<<>>)
    /\ UNCHANGED <<qm, pm, timers, connections, wsState, wsUser, now>>

\* an identify frame with the liveness fields followed
RecvIdentifyLive(t, userId) ==
    /\ RecvIdentify(t, userId, TRUE)
    /\ heartbeat' = addConnectionLiveness(heartbeat, userId, t, now)

\* ws.on('close') with the liveness fields followed
CloseEventLive(t) ==
    /\ CloseEvent(t)
    /\ heartbeat' = IF wsUser[t] # None
                    THEN removeConnectionLiveness(heartbeat, wsUser[t])
                    ELSE heartbeat

\* time passes; the heartbeat fires before the clock passes its due time
TickLive ==
    /\ heartbeat.due > now
    /\ TickUpTo(MaxHeartbeatTime)
    /\ UNCHANGED heartbeat

\* what the heartbeat specification does not follow
LiveOnly == UNCHANGED <<sm, wsIp, httpReply, pairedNotified, returned>>

\* a on transport 1 and b on transport 2 have just identified
InitHeartbeat ==
    /\ qm = QueueManagerInit
    /\ pm = PairingManagerInit
    /\ timers = {}
    /\ connections = MapSet(MapSet(EmptyMap, "a", [ws |-> 1]), "b", [ws |-> 2])
    /\ wsState = [t \in Transports |-> IF t <= 2 THEN "open" ELSE "new"]
    /\ wsUser = [t \in Transports |-> IF t = 1 THEN "a" ELSE IF t = 2 THEN "b" ELSE None]
    /\ now = 0
    /\ sent = Written(<<>>)
    /\ pairedNotified = {}
    /\ sm = SecurityManagerInit
    /\ wsIp = [t \in Transports |-> None]
    /\ httpReply = 0
    /\ heartbeat = addConnectionLiveness(
                       addConnectionLiveness(HeartbeatInit, "a", 1, 0), "b", 2, 0)
    /\ returned = NoCall

\* Heartbeat: the interval callback, pongs, re-identification of a and b on
\* either transport, close events and the clock
NextHeartbeat ==
    \/ Heartbeat /\ LiveOnly
    \/ \E t \in Transports : PongEvent(t) /\ LiveOnly
    \/ \E t \in Transports, u \in {"a", "b"} : RecvIdentifyLive(t, u) /\ LiveOnly
    \/ \E t \in Transports : CloseEventLive(t) /\ LiveOnly
    \/ TickLive /\ LiveOnly

SpecHeartbeat == InitHeartbeat /\ [][NextHeartbeat]_vars

\* userIds are chosen by the clients: any string
ClientIds == {"a", "a_b", "b_c", "c"}

\* the modes a caller passes here: two chat modes and one that is none
PairModes == {"text", "video", "invalid"}

\* pairingManager.createPair(user1, user2, mode), called on its own
CreatePair(user1, user2, mode) ==
    /\ LET r == createPair(pm, user1, user2, mode)
       IN /\ pm' = r.p
          /\ returned' = [call |-> "createPair", success |-> r.success,
                          user1 |-> user1, user2 |-> user2, mode |-> mode]
    /\ UNCHANGED <<qm, timers, connections, wsState, wsUser, now, sent>>

\* pairingManager.breakPair(userId), called on its own
BreakPair(userId) ==
    /\ LET r == breakPair(pm, userId)
       IN /\ pm' = r.p
          /\ returned' = [call |-> "breakPair", success |-> r.success,
                          user1 |-> None, user2 |-> None, mode |-> None]
    /\ UNCHANGED <<qm, timers, connections, wsState, wsUser, now, sent>>

\* pairingManager.switchMode(userId, partnerId, 'video'), called on its own
SwitchMode(userId, partnerId) ==
    /\ SwitchesBelowBound
    /\ LET r == switchMode(pm, userId, partnerId, "video", now)
       IN /\ Cardinality(timers \cup r.timers) <= MaxTimers
          /\ pm' = r.p
          /\ timers' = timers \cup r.timers
          /\ returned' = [call |-> "switchMode", success |-> r.success,
                          user1 |-> None, user2 |-> None, mode |-> None]
    /\ UNCHANGED <<qm, connections, wsState, wsUser, now, sent>>

\* what the PairingManager specification does not follow
PairingOnly == UNCHANGED <<sm, wsIp, httpReply, pairedNotified, heartbeat>>

\* The PairingManager under any sequence of createPair and breakPair
NextPairing ==
    \/ \E user1 \in ClientIds, user2 \in ClientIds, mode \in PairModes :
          CreatePair(user1, user2, mode) /\ PairingOnly
    \/ \E u \in ClientIds : BreakPair(u) /\ PairingOnly
    \/ \E userId \in ClientIds, partnerId \in ClientIds :
          SwitchMode(userId, partnerId) /\ PairingOnly

SpecPairing == Init /\ [][NextPairing]_vars

\* queueManager.addToQueue(userId, mode, priority), its return value kept
AddToQueueCall(userId, mode, priority) ==
    /\ LET r == addToQueue(qm, userId, mode, priority, now)
       IN /\ qm' = r.q
          /\ returned' = [call |-> "addToQueue", success |-> r.ret,
                          user1 |-> userId, user2 |-> None, mode |-> None]
    /\ UNCHANGED <<pm, timers, connections, wsState, wsUser, now, sent>>

\* queueManager.removeFromQueue(userId), its return value kept
RemoveFromQueueCall(userId) ==
    /\ LET r == removeFromQueue(qm, userId)
       IN /\ qm' = r.q
          /\ returned' = [call |-> "removeFromQueue", success |-> r.ret,
                          user1 |-> userId, user2 |-> None, mode |-> None]
    /\ UNCHANGED <<pm, timers, connections, wsState, wsUser, now, sent>>

\* queueManager.matchUsers(mode), its return value kept
MatchUsersCall(mode) ==
    /\ LET r == matchUsers(qm, mode)
       IN /\ qm' = r.q
          /\ returned' = [call |-> "matchUsers", success |-> r.match # <<>>,
                          user1 |-> None, user2 |-> None, mode |-> None]
    /\ UNCHANGED <<pm, timers, connections, wsState, wsUser, now, sent>>

\* the setInterval callback of startCleanupInterval, firing when its interval ends
CleanupExpiredEntries ==
    /\ now = qm.cleanupDue
    /\ qm' = [cleanupExpiredEntries(qm, now) EXCEPT
                !.cleanupDue = @ + cleanupInterval]
    /\ returned' = [call |-> "cleanupExpiredEntries", success |-> TRUE,
                    user1 |-> None, user2 |-> None, mode |-> None]
    /\ UNCHANGED <<pm, timers, connections, wsState, wsUser, now, sent>>

\* time passes; the sweeper runs before the clock moves past its due time
TickSweep ==
    /\ now < MaxSweepTime
    /\ qm.cleanupDue > now
    /\ now' = now + 1
    /\ UNCHANGED <<qm, pm, timers, connections, wsState, wsUser, sent, returned>>

\* the modes used where the sweeper is followed
SweepModes == {"text", "video"}

\* The QueueManager with its sweeper, under any sequence of calls
NextSweep ==
    \/ \E u \in Users, mode \in SweepModes, priority \in Priorities :
          AddToQueueCall(u, mode, priority) /\ PairingOnly
    \/ \E u \in Users : RemoveFromQueueCall(u) /\ PairingOnly
    \/ \E mode \in SweepModes : MatchUsersCall(mode) /\ PairingOnly
    \/ CleanupExpiredEntries /\ PairingOnly
    \/ TickSweep /\ PairingOnly

SpecSweep == Init /\ [][NextSweep]_vars

\* Admission: c is reported and leaves, upgrade requests arrive from both
\* addresses, and time passes so that bans and connection windows run out
NextAdmission ==
    \/ \E t \in Transports : RecvReport(t, "r1", "c")
    \/ \E t \in Transports, ip \in Ips : Upgrade(t, ip)
    \/ \E t \in Transports : CloseEventTracked(t)
    \/ TickUpTo(MaxLimiterTime) /\ httpReply' = 0 /\ UNCHANGED <<sm, wsIp, pairedNotified, heartbeat, returned>>

SpecAdmission == InitReport /\ [][NextAdmission]_vars

\* {type:'text-message', ...} with the SecurityManager followed
RecvTextMessageTracked(t, userId, targetId, text) ==
    LET r == checkRateLimit(sm, userId, "messages", now)
    IN /\ RecvTextMessage(t, userId, targetId, r.ret, text)
       /\ sm' = IF r.ret /\ validateMessage(text).valid
                THEN trackUserAction(r.s, userId, "message", now)
                ELSE r.s
       /\ httpReply' = 0
       /\ UNCHANGED <<wsIp, pairedNotified, heartbeat, returned>>

\* the admission front and the SecurityManager are followed only in the
\* specifications about them
FrontUnchanged == UNCHANGED <<sm, wsIp, httpReply, heartbeat, returned>>

\* the history of 'paired' notifications is kept only where a property reads it
Unobserved == UNCHANGED pairedNotified /\ FrontUnchanged

\* the history after a step: what was written to a transport is forgotten once
\* the transport is no longer open
Observed ==
    /\ pairedNotified' =
        {e \in pairedNotified \cup
                {<<m.to, m.partnerId>> : m \in {x \in AllWritten(sent') : x.type = "paired"}} :
            wsState'[e[1]] = "open"}
    /\ FrontUnchanged

\* Pairing core: admission, identification, text matching, both disconnect
\* paths and the clock
Next ==
    \/ \E t \in Transports : Connect(t) /\ Unobserved
    \/ \E t \in Transports : CloseEvent(t) /\ Unobserved
    \/ \E t \in Transports, u \in Users, fp \in BOOLEAN :
          RecvIdentify(t, u, fp) /\ Unobserved
    \/ \E t \in Transports, u \in Users : RecvJoin(t, u, "text") /\ Unobserved
    \/ \E t \in Transports, u \in Users : RecvDisconnect(t, u) /\ Unobserved
    \/ Tick /\ Unobserved

Spec == Init /\ [][Next]_vars

\* Two identified users whose join-text frames have just paired them: the
\* state after Connect, identify and join-text of a on transport 1 and of b on
\* transport 2
PairedStart ==
    LET conns == MapSet(MapSet(EmptyMap, "a", [ws |-> 1]), "b", [ws |-> 2])
        wss == [t \in Transports |-> "open"]
        j1 == joinHandler(QueueManagerInit, PairingManagerInit, conns, wss,
                          "a", "text", 0)
        j2 == joinHandler(j1.q, j1.p, conns, wss, "b", "text", 0)
    IN [q |-> j2.q, p |-> j2.p, conns |-> conns, wss |-> wss, out |-> j2.out]

InitSwitch ==
    /\ qm = PairedStart.q
    /\ pm = PairedStart.p
    /\ timers = {}
    /\ connections = PairedStart.conns
    /\ wsState = PairedStart.wss
    /\ wsUser = [t \in Transports |-> IF t = 1 THEN "a" ELSE IF t = 2 THEN "b" ELSE None]
    /\ now = 0
    /\ sent = Written(PairedStart.out)
    /\ pairedNotified = {}
    /\ sm = SecurityManagerInit
    /\ wsIp = [t \in Transports |-> None]
    /\ httpReply = 0
    /\ heartbeat = HeartbeatInit
    /\ returned = NoCall

\* Mode-switch handshake of a pair, with both disconnect paths, re-joins of
\* the two users under their own userId, the handshake timers and the clock
NextSwitch ==
    \/ \E t \in Transports, u \in Users, v \in Users :
          RecvModeSwitch(t, u, v) /\ Unobserved
    \/ \E timer \in timers : TimerFire(timer) /\ Unobserved
    \/ Tick /\ Unobserved
    \/ \E t \in Transports :
          wsUser[t] # None /\ RecvJoin(t, wsUser[t], "text") /\ Unobserved
    \/ \E t \in Transports, u \in Users : RecvDisconnect(t, u) /\ Unobserved
    \/ \E t \in Transports : CloseEvent(t) /\ Unobserved

SpecSwitch == InitSwitch /\ [][NextSwitch]_vars

\* Two connected users, a identified on transport 1 and b on transport 2, who
\* have not joined yet: the state after Connect and identify of both
InitRelay ==
    /\ qm = QueueManagerInit
    /\ pm = PairingManagerInit
    /\ timers = {}
    /\ connections = PairedStart.conns
    /\ wsState = PairedStart.wss
    /\ wsUser = [t \in Transports |-> IF t = 1 THEN "a" ELSE IF t = 2 THEN "b" ELSE None]
    /\ now = 0
    /\ sent = Written(<<>>)
    /\ pairedNotified = {}
    /\ sm = SecurityManagerInit
    /\ wsIp = [t \in Transports |-> None]
    /\ httpReply = 0
    /\ heartbeat = HeartbeatInit
    /\ returned = NoCall

\* Relaying between two identified users who send under their own userId:
\* text matching, the relay frames to any target, both disconnect paths, with
\* the history of 'paired' notifications
NextRelay ==
    \/ \E t \in Transports :
          wsUser[t] # None /\ RecvJoin(t, wsUser[t], "text") /\ Observed
    \/ \E t \in Transports, v \in Users, allowed \in BOOLEAN, text \in Texts :
          wsUser[t] # None /\ RecvTextMessage(t, wsUser[t], v, allowed, text) /\ Observed
    \/ \E t \in Transports, type \in SignalTypes \cup TypingTypes, v \in Users :
          wsUser[t] # None /\ RecvSignal(t, type, wsUser[t], v) /\ Observed
    \/ \E t \in Transports, type \in VideoRequestTypes, to \in Users :
          wsUser[t] # None /\ RecvVideoRequest(t, type, to, wsUser[t]) /\ Observed
    \/ \E t \in Transports :
          wsUser[t] # None /\ RecvDisconnect(t, wsUser[t]) /\ Observed
    \/ \E t \in Transports : CloseEvent(t) /\ Observed

SpecRelay == InitRelay /\ [][NextRelay]_vars

\* sizes of frames around the limit
FrameSizes == {MAX_MESSAGE_SIZE - 1, MAX_MESSAGE_SIZE, MAX_MESSAGE_SIZE + 1}

\* Frames that are turned down, among the frames of two identified users:
\* identify with and without fingerprint, text matching, both disconnect paths
NextFrames ==
    \/ \E t \in Transports, size \in FrameSizes, kind \in RejectKinds :
          RecvRejected(t, size, kind) /\ Unobserved
    \/ \E t \in Transports, type \in SchemaTypes :
          RecvUnregistered(t, type) /\ Unobserved
    \/ \E t \in Transports, fp \in BOOLEAN :
          wsUser[t] # None /\ RecvIdentify(t, wsUser[t], fp) /\ Unobserved
    \/ \E t \in Transports :
          wsUser[t] # None /\ RecvJoin(t, wsUser[t], "text") /\ Unobserved
    \/ \E t \in Transports :
          wsUser[t] # None /\ RecvDisconnect(t, wsUser[t]) /\ Unobserved
    \/ \E t \in Transports : CloseEvent(t) /\ Unobserved

SpecFrames == InitRelay /\ [][NextFrames]_vars

\* The QueueManager under any sequence of its operations, with the join
\* frames of the server among them
NextQueue ==
    \/ \E u \in Users, mode \in Modes, priority \in Priorities :
          AddToQueue(u, mode, priority) /\ Unobserved
    \/ \E u \in Users : RemoveFromQueue(u) /\ Unobserved
    \/ \E mode \in Modes : MatchUsers(mode) /\ Unobserved
    \/ \E t \in Transports, u \in Users, mode \in JoinModes :
          RecvJoin(t, u, mode) /\ Unobserved

SpecQueue == InitRelay /\ [][NextQueue]_vars

\* a paired in text mode with b, a connected from ip1 and b from ip2: the
\* state after both were admitted, identified and joined
InitText ==
    /\ qm = PairedStart.q
    /\ pm = PairedStart.p
    /\ timers = {}
    /\ connections = PairedStart.conns
    /\ wsState = PairedStart.wss
    /\ wsUser = [t \in Transports |-> IF t = 1 THEN "a" ELSE IF t = 2 THEN "b" ELSE None]
    /\ now = 0
    /\ sent = Written(PairedStart.out)
    /\ pairedNotified = {}
    /\ sm = trackIPConnection(trackIPConnection(SecurityManagerInit, "ip1", 0).s,
                              "ip2", 0).s
    /\ wsIp = [t \in Transports |-> IF t = 1 THEN "ip1" ELSE "ip2"]
    /\ httpReply = 0
    /\ heartbeat = HeartbeatInit
    /\ returned = NoCall

\* Text messages of a to any target and reports of a naming b, with the rate
\* limiter, content validation, abuse tracking and the clock
NextText ==
    \/ \E v \in Users, text \in Texts : RecvTextMessageTracked(1, "a", v, text)
    \/ RecvReport(1, "a", "b")
    \/ TickUpTo(MaxLimiterTime) /\ httpReply' = 0 /\ UNCHANGED <<sm, wsIp, pairedNotified, heartbeat, returned>>

SpecText == InitText /\ [][NextText]_vars

(* ---------------------------------------------------------------------- *)
(* Vocabulary of the properties                                            *)
(* ---------------------------------------------------------------------- *)
\* userId has an entry in some queue of q (any mode, any tier)
Enqueued(q, userId) ==
    \E m \in Modes : InSeq(q.queues[m], userId) \/ InSeq(q.priorityQueues[m], userId)

\* userId has a registered connection whose transport is open
ConnOpen(conns, wss, userId) == MapHas(conns, userId) /\ IsOpen(wss, conns[userId].ws)

\* mode of the session of userId's pair (None without pair or session)
SessionMode(p, userId) ==
    IF MapHas(p.pairs, userId)
       /\ MapHas(p.sessions, generatePairId(userId, p.pairs[userId]))
    THEN p.sessions[generatePairId(userId, p.pairs[userId])].mode
    ELSE None

RECURSIVE TypesOf(_)
TypesOf(msgs) == IF msgs = <<>> THEN <<>> ELSE <<Head(msgs).type>> \o TypesOf(Tail(msgs))

\* the disconnect notices addressed to userId among the messages snt, in order
Notices(snt, userId) ==
    TypesOf(SelectSeq(snt,
        LAMBDA m : m.user = userId /\ m.type \in {"partner-disconnected", "waiting"}))

\* the messages of a given type written by the last handler
SentOfType(type) == {m \in AllWritten(sent) : m.type = type}

(* ---------------------------------------------------------------------- *)
(* C1 - C5, C10: pairing and the disconnect paths                          *)
(* ---------------------------------------------------------------------- *)
\* C1: the pair relation is symmetric and irreflexive: pair(x) = y implies
\* pair(y) = x and x # y (so each userId is in at most one pair).
C1_PairSymmetric ==
    \A x \in DOMAIN pm.pairs :
        /\ pm.pairs[x] # x
        /\ MapHas(pm.pairs, pm.pairs[x])
        /\ pm.pairs[pm.pairs[x]] = x

\* a pair exists and its 'paired' notification was just written
C1_Witness ==
    \E m \in SentOfType("paired") :
        MapHas(pm.pairs, m.user) /\ pm.pairs[m.user] = m.partnerId

\* C2: after every handler no userId is both in a matching queue and paired.
C2_NoQueuedAndPaired ==
    \A u \in Users : ~(Enqueued(qm, u) /\ isPaired(pm, u))

\* the users a join of userId takes out of the queues by its match
MatchedBy(q, q2, userId, mode, t) ==
    {v \in Users : Enqueued(addToQueue(q, userId, mode, 0, t).q, v) /\ ~Enqueued(q2, v)}

\* C3: a 'paired' notification to x naming y is written only while
\* pair(x) = y and pair(y) = x, and the users a match removes from the queue
\* end up paired with each other.
C3_PairedMeansPaired ==
    [][/\ \A t \in Transports : \A i \in 1..Len(sent'[t]) :
            sent'[t][i].type = "paired" =>
                /\ getPair(pm', sent'[t][i].user) = sent'[t][i].partnerId
                /\ getPair(pm', sent'[t][i].partnerId) = sent'[t][i].user
       /\ \A u \in Users :
            (qm' # qm /\ \E t \in Transports : RecvJoin(t, u, "text")) =>
                \A v \in MatchedBy(qm, qm', u, "text", now) :
                    getPair(pm', v) \in MatchedBy(qm, qm', u, "text", now) \ {v}
      ]_vars

C5_DisconnectFrameRequeuesPartner ==
    [][\A x \in DOMAIN pm.pairs :
         (ConnOpen(connections, wsState, pm.pairs[x])
            /\ \E t \in Transports : RecvDisconnect(t, x)) =>
            LET y == pm.pairs[x]
            IN /\ ~isPaired(pm', x)
               /\ ~isPaired(pm', y)
               /\ Notices(sent'[connections[y].ws], y)
                      = <<"partner-disconnected", "waiting">>
               /\ InSeq(qm'.queues[SessionMode(pm, x)], y)
      ]_vars

\* C10: one connection per userId and replacement keeps the new one: an
\* identify of U on a new transport closes U's prior open transport and
\* registers the new one, and the close event of the prior transport leaves
\* U's registration, the new transport and U's queue and pair state alone.
C10_ReplacementKeepsNew ==
    [][\A u \in DOMAIN connections : \A t \in Transports \ {connections[u].ws} :
         IsOpen(wsState, connections[u].ws) =>
            /\ (\E fp \in BOOLEAN : RecvIdentify(t, u, fp)) =>
                   /\ wsState'[connections[u].ws] = "closing"
                   /\ connections'[u].ws = t
            /\ (wsState[t] = "closing" /\ wsUser[t] = u /\ CloseEvent(t)) =>
                   /\ MapHas(connections', u)
                   /\ connections'[u] = connections[u]
                   /\ wsState'[connections[u].ws] = "open"
                   /\ Enqueued(qm, u) => Enqueued(qm', u)
                   /\ isPaired(pm, u) => isPaired(pm', u)
      ]_vars

(* ---------------------------------------------------------------------- *)
(* C6, C7: the mode-switch handshake                                       *)
(* ---------------------------------------------------------------------- *)
\* the video-mode-ready messages addressed to userId among the messages snt
ReadyTo(snt, userId) ==
    SelectSeq(snt, LAMBDA m : m.user = userId /\ m.type = "video-mode-ready")

C7_SessionChangesOnSecond ==
    [][\A u \in DOMAIN pm.pairs :
         (\E t \in Transports : RecvModeSwitch(t, u, pm.pairs[u])) =>
            LET pairId == generatePairId(u, pm.pairs[u])
            IN IF MapHas(pm.modeSwitchPending, u)
               THEN /\ MapHas(pm'.sessions, pairId)
                    /\ pm'.sessions[pairId].mode = "video"
                    /\ Len(pm'.sessions[pairId].switches) =
                           Len(pm.sessions[pairId].switches) + 1
                    /\ SubSeq(pm'.sessions[pairId].switches, 1,
                              Len(pm.sessions[pairId].switches)) =
                           pm.sessions[pairId].switches
                    /\ LET rec == pm'.sessions[pairId].switches[
                                      Len(pm'.sessions[pairId].switches)]
                       IN rec.from = pm.sessions[pairId].mode /\ rec.to = "video"
               ELSE /\ \A t \in Transports : sent'[t] = <<>>
                    /\ pm'.sessions = pm.sessions
      ]_vars

\* a handshake has completed: the pair's session is in video mode with the one
\* switch record from text to video, and nothing is pending any more
C7_Witness ==
    \E u \in DOMAIN pm.pairs :
        LET pairId == generatePairId(u, pm.pairs[u])
        IN /\ MapHas(pm.sessions, pairId)
           /\ pm.sessions[pairId].mode = "video"
           /\ Len(pm.sessions[pairId].switches) = 1
           /\ pm.sessions[pairId].switches[1].from = "text"
           /\ pm.sessions[pairId].switches[1].to = "video"
           /\ pm.modeSwitchPending = EmptyMap
           /\ SentOfType("video-mode-ready") # {}

(* ---------------------------------------------------------------------- *)
(* C8, C9: relaying                                                        *)
(* ---------------------------------------------------------------------- *)
RelayTypes == {"text-message"} \cup SignalTypes \cup TypingTypes \cup VideoRequestTypes

\* C8: a text-message, offer, answer or ice-candidate from a sender is written
\* to a client only after a 'paired' notification naming that sender has been
\* written to it.
C8_PairedBeforeRelay ==
    [][\A m \in AllWritten(sent') :
         m.type \in {"text-message"} \cup SignalTypes =>
             <<m.to, m.from>> \in pairedNotified
      ]_vars

\* C9: a relay frame is delivered to its target only if the sender and the
\* target are paired with each other when it arrives; otherwise nothing
\* reaches the target.
C9_RelayOnlyToPartner ==
    [][\A m \in AllWritten(sent') :
         m.type \in RelayTypes =>
             /\ getPair(pm, m.from) = m.user
             /\ getPair(pm, m.user) = m.from
      ]_vars

(* ---------------------------------------------------------------------- *)
(* C11, C12: queues, pairs and connections                                 *)
(* ---------------------------------------------------------------------- *)
\* C11: after every handler, every userId that is in a queue or in a pair has
\* a registered connection.
C11_QueuedOrPairedIsConnected ==
    \A u \in Users :
        (Enqueued(qm, u) \/ isPaired(pm, u)) => MapHas(connections, u)

\* number of queue entries over all modes and both tiers
QueueTotal(q) ==
    LET n(m) == Len(q.queues[m]) + Len(q.priorityQueues[m])
    IN n("text") + n("video") + n("voice")

\* C12: after every handler, the number of queue entries over all modes and
\* tiers is at most the number of registered connections whose transport is
\* open.
C12_QueueWithinConnections ==
    QueueTotal(qm) <= Cardinality({u \in Users : ConnOpen(connections, wsState, u)})

(* ---------------------------------------------------------------------- *)
(* C13: reports and the ban                                                *)
(* ---------------------------------------------------------------------- *)
\* accepted reports it takes to ban the reported user
ReportBanThreshold == 5

\* the reporters with an accepted report-user frame on record
AcceptedReporters(s) ==
    {r \in Reporters : MapHas(s.rateLimits, r) /\ s.rateLimits[r].reports # <<>>}

\* C13: once the fifth distinct reporter's report-user frame naming Z has been
\* accepted, the address of Z's connection is in the ban table until now + the
\* ban duration, Z's transport is no longer open and an upgrade attempt from
\* that address is refused as banned.
C13_FiveReportsBan ==
    [][\A r \in Reporters :
         (/\ ConnOpen(connections, wsState, "c")
          /\ r \notin AcceptedReporters(sm)
          /\ Cardinality(AcceptedReporters(sm)) = ReportBanThreshold - 1
          /\ \E t \in Transports : RecvReport(t, r, "c")) =>
            LET ip == ipOfUser(connections, wsIp, "c")
            IN /\ MapHas(sm'.bannedIPs, ip)
               /\ sm'.bannedIPs[ip].until = now + DEFAULT_BAN_DURATION
               /\ ~IsOpen(wsState', connections["c"].ws)
               /\ isIPBanned(sm', ip, now).ret
      ]_vars

(* ---------------------------------------------------------------------- *)
(* C14 - C16: text messages, validation and the rate limiter               *)
(* ---------------------------------------------------------------------- *)
\* C14: every text-message written to a recipient carries the userId of the
\* frame in from and a body that passed validateMessage: a non-empty string
\* of at most MAX_MESSAGE_LENGTH characters without dangerous pattern, with
\* the profanity filter applied.
C14_DeliveredTextIsValid ==
    [][\A v \in Users, text \in Texts :
         RecvTextMessageTracked(1, "a", v, text) =>
            \A m \in AllWritten(sent') :
                m.type = "text-message" =>
                    /\ m.from = "a"
                    /\ text.isString
                    /\ text.length >= 1
                    /\ text.length <= MAX_MESSAGE_LENGTH
                    /\ ~text.dangerous
                    /\ m.message = [text EXCEPT !.profane = FALSE]
      ]_vars

\* b was just written a text-message from a whose body has the maximal length
C14_Witness ==
    \E m \in SentOfType("text-message") :
        /\ m.user = "b" /\ m.from = "a"
        /\ m.message.length = MAX_MESSAGE_LENGTH /\ ~m.message.profane
        /\ sm.abuseTracking["a"].messageCount = 1

\* C15: a text-message that fails the messages rate limit or the content
\* validation is answered with one error to the sender; nothing is delivered,
\* the session's message count and the abuse counters stay as they were and
\* every connection stays open.
C15_RejectedTextHasNoEffect ==
    [][\A v \in Users, text \in Texts :
         (/\ \/ ~checkRateLimit(sm, "a", "messages", now).ret
             \/ ~validateMessage(text).valid
          /\ RecvTextMessageTracked(1, "a", v, text)) =>
            /\ TypesOf(sent'[connections["a"].ws]) = <<"error">>
            /\ \A m \in AllWritten(sent') : m.type = "error" /\ m.user = "a"
            /\ pm' = pm
            /\ sm'.abuseTracking = sm.abuseTracking
            /\ wsState' = wsState
            /\ connections' = connections
      ]_vars

\* a was just told to slow down, with a full window of accepted messages on record
C15_Witness ==
    /\ \E m \in SentOfType("error") : m.user = "a" /\ m.message = "Slow down!"
    /\ Len(sm.rateLimits["a"].messages) = DEFAULT_RATE_LIMIT_MESSAGES

\* the accepted attempts on record for (userId, action)
Attempts(s, userId, action) ==
    IF MapHas(s.rateLimits, userId) THEN s.rateLimits[userId][action] ELSE <<>>

\* the attempts of times made less than window before t
WithinWindow(times, t, window) == SelectSeq(times, LAMBDA x : x + window > t)

\* the rate limiter turned the frame of this step down
LimiterRefused ==
    \E m \in AllWritten(sent') :
        m.type = "error" /\ m.user = "a" /\ m.message \in {"Slow down!", None}

\* a frame of a that asks the rate limiter about action
LimiterAttempt(action) ==
    IF action = "messages"
    THEN \E v \in Users, text \in Texts : RecvTextMessageTracked(1, "a", v, text)
    ELSE RecvReport(1, "a", "b")

\* the limit and the window the claim gives for action
ClaimedLimit(action) ==
    IF action = "messages" THEN DEFAULT_RATE_LIMIT_MESSAGES ELSE DEFAULT_RATE_LIMIT_REPORTS
ClaimedWindow(action) ==
    IF action = "messages" THEN DEFAULT_RATE_LIMIT_WINDOW_MS
    ELSE DEFAULT_RATE_LIMIT_REPORTS_WINDOW_MS

Admitted(s, ip) ==
    IF MapHas(s.ipConnections, ip) THEN s.ipConnections[ip].connections ELSE <<>>

\* C17: an upgrade request from an address whose ban has not run out is
\* answered 403, opens no transport and is not added to the address's
\* connection window; once now > until the lookup removes the ban and the
\* request goes on to the connection-rate check (101 or 429).
C17_BannedUpgradeRefused ==
    [][\A t \in Transports, ip \in Ips :
         (MapHas(sm.bannedIPs, ip) /\ Upgrade(t, ip)) =>
            IF now <= sm.bannedIPs[ip].until
            THEN /\ httpReply' = 403
                 /\ wsState' = wsState
                 /\ sm'.ipConnections = sm.ipConnections
                 /\ sm'.bannedIPs = sm.bannedIPs
            ELSE /\ ~MapHas(sm'.bannedIPs, ip)
                 /\ httpReply' \in {101, 429}
                 /\ MapHas(sm'.ipConnections, ip)
      ]_vars

\* ip1 was banned when c left, its ban ran out, and a request from ip1 was
\* admitted again: the ban entry is gone
C17_Witness ==
    /\ httpReply = 101
    /\ now > DEFAULT_BAN_DURATION
    /\ ~MapHas(sm.bannedIPs, "ip1")
    /\ MapHas(sm.abuseTracking, "c")
    /\ sm.abuseTracking["c"].reportCount >= ABUSE_REPORT_COUNT_THRESHOLD
    /\ sm.abuseTracking["c"].skipCount >= 1
    /\ \E t \in Transports : wsState[t] = "open" /\ wsIp[t] = "ip1"
    /\ Admitted(sm, "ip1") = <<now>>

\* C18: per address at most maxConnectionsPerIP upgrade requests are admitted
\* within one window: the request that finds fewer than maxConnectionsPerIP
\* admitted ones in the window is admitted and recorded, the next one is
\* answered 429 and is not recorded, and admission resumes when the earlier
\* ones have left the window.
C18_ConnectionsPerAddress ==
    [][\A t \in Transports, ip \in Ips :
         (Upgrade(t, ip) /\ httpReply' # 403) =>
            LET before == WithinWindow(Admitted(sm, ip), now, ipConnectionWindow)
            IN /\ httpReply' = IF Len(before) >= maxConnectionsPerIP THEN 429 ELSE 101
               /\ Admitted(sm', ip) =
                     IF httpReply' = 429 THEN before ELSE Append(before, now)
               /\ Len(Admitted(sm', ip)) <= maxConnectionsPerIP
               /\ httpReply' = 429 => wsState' = wsState
      ]_vars

\* ip1, admitted at time 0 and again one tick later, is admitted a third time
\* at the moment its first request left the window
C18_Witness ==
    /\ httpReply = 101
    /\ now = ipConnectionWindow
    /\ Admitted(sm, "ip1") = <<ipConnectionWindow - 1, ipConnectionWindow>>
    /\ sm.ipConnections["ip1"].lastConnection = now
    /\ \A t \in Transports : wsState[t] = "open" /\ wsIp[t] = "ip1"

(* ---------------------------------------------------------------------- *)
(* C19 - C20: frames that are turned down                                  *)
(* ---------------------------------------------------------------------- *)
\* C19: a frame of more than MAX_MESSAGE_SIZE bytes, or one of at most
\* MAX_MESSAGE_SIZE bytes without type, with an unknown type or without a
\* required field, is answered with one error to its sender, changes no
\* queue, pairing or security state and leaves the transport open.
C19_RejectedFrameGetsError ==
    [][\A t \in Transports, size \in FrameSizes,
         kind \in {"no-type", "missing-field", "unknown-type"} :
            RecvRejected(t, size, kind) =>
               /\ TypesOf(sent'[t]) = <<"error">>
               /\ size <= MAX_MESSAGE_SIZE => sent'[t][1].message # "Message too large"
               /\ qm' = qm /\ pm' = pm /\ sm' = sm
               /\ wsState'[t] = "open"
      ]_vars

\* C20: a frame that is no JSON makes the server close the transport it came
\* on: after the handler the transport is no longer open.
C20_UndecodableCloses ==
    [][\A t \in Transports, size \in FrameSizes :
         (size <= MAX_MESSAGE_SIZE /\ RecvRejected(t, size, "undecodable")) =>
            wsState'[t] # "open"
      ]_vars

(* ---------------------------------------------------------------------- *)
(* C21 - C22: dispatch and the join handlers                               *)
(* ---------------------------------------------------------------------- *)
\* C21: every message type of the schema table has a handler, so a frame of
\* such a type that carries its required fields is never answered with an
\* error: join-voice queues its user for voice, ping produces no reply.
C21_SchemaTypesAreHandled ==
    [][\A t \in Transports, type \in SchemaTypes :
         RecvUnregistered(t, type) =>
            \A m \in AllWritten(sent') : m.type # "error"
      ]_vars

\* the paired notifications written by the last handler
PairedWritten(snt) == {m \in AllWritten(snt) : m.type = "paired"}

\* C22: on a video match the paired notification to the first user of the
\* match tuple carries isOfferer true and the one to the second carries false,
\* so exactly one of the two says true; on a text match no paired
\* notification has an isOfferer field.
C22_FirstOfMatchOffers ==
    [][\A t \in Transports, u \in Users, mode \in JoinModes :
         (RecvJoin(t, u, mode) /\ PairedWritten(sent') # {}) =>
            LET m == matchUsers(addToQueue(qm, u, mode, 0, now).q, mode).match
            IN /\ m # <<>>
               /\ \A x \in PairedWritten(sent') :
                     /\ x.user \in {m[1], m[2]}
                     /\ x.isOfferer = IF mode # "video" THEN None
                                      ELSE IF x.user = m[1] THEN "true" ELSE "false"
               /\ (mode = "video" /\ Cardinality(PairedWritten(sent')) = 2) =>
                     Cardinality({x \in PairedWritten(sent') : x.isOfferer = "true"}) = 1
      ]_vars

\* b, queued for video first, and a were just matched: b is told to offer, a
\* to answer
C22_Witness ==
    /\ \E x \in PairedWritten(sent) :
          x.user = "b" /\ x.partnerId = "a" /\ x.isOfferer = "true"
    /\ \E x \in PairedWritten(sent) :
          x.user = "a" /\ x.partnerId = "b" /\ x.isOfferer = "false"
    /\ SessionMode(pm, "a") = "video"

(* ---------------------------------------------------------------------- *)
(* C23: heartbeat                                                          *)
(* ---------------------------------------------------------------------- *)
\* C23: at a heartbeat tick a connection that gave no sign of life since the
\* previous tick (not marked alive), or whose last pong is more than
\* connectionTimeout old, is evicted; a connection that is marked alive is
\* kept, marked not-alive and probed, so that without an answer the next tick
\* evicts it; a pong marks the connection of its transport alive at the
\* current time, so a connection that answers every probe is never evicted.
C23_HeartbeatLiveness ==
    [][/\ Heartbeat =>
            \A u \in DOMAIN connections :
               LET r == heartbeat.records[u]
               IN /\ (~r.isAlive \/ now - r.lastPing > connectionTimeout)
                        => ~MapHas(connections', u)
                  /\ r.isAlive =>
                        /\ MapHas(connections', u)
                        /\ connections'[u] = connections[u]
                        /\ ~heartbeat'.records[u].isAlive
       /\ \A t \in Transports :
            PongEvent(t) =>
               \A u \in DOMAIN connections :
                  connections[u].ws = t =>
                     heartbeat'.records[u] = [isAlive |-> TRUE, lastPing |-> now]
      ]_vars

\* b answered no probe and was evicted by the second tick, its transport is
\* being closed; a answered the first probe and is still registered
C23_Witness ==
    /\ now = 2 * heartbeatInterval
    /\ heartbeat.due = 3 * heartbeatInterval
    /\ ~MapHas(connections, "b")
    /\ wsUser[2] = "b" /\ wsState[2] = "closing"
    /\ MapHas(connections, "a") /\ connections["a"].ws = 1
    /\ wsState[1] = "open"
    /\ heartbeat.records["a"] = [isAlive |-> FALSE, lastPing |-> heartbeatInterval]

(* ---------------------------------------------------------------------- *)
(* C24 - C26: the QueueManager                                             *)
(* ---------------------------------------------------------------------- *)
\* the positions userId holds in the tiers of all modes
Entries(q, userId) ==
    UNION {{<<mode, "normal", i>> : i \in {j \in 1..Len(q.queues[mode]) :
                                              q.queues[mode][j] = userId}}
           \cup {<<mode, "priority", i>> :
                    i \in {j \in 1..Len(q.priorityQueues[mode]) :
                              q.priorityQueues[mode][j] = userId}} : mode \in Modes}

\* the users queued for mode, in either tier
QueuedFor(q, mode) ==
    {q.queues[mode][i] : i \in 1..Len(q.queues[mode])}
    \cup {q.priorityQueues[mode][i] : i \in 1..Len(q.priorityQueues[mode])}

\* C24: after every operation a userId has at most one queue entry across all
\* modes and tiers; a join of a user who is alone in the queue of the mode
\* (joining twice) produces no paired message, and matchUsers never returns a
\* user matched with itself.
C24_OneEntryPerUser ==
    [][/\ \A u \in Users : Cardinality(Entries(qm', u)) <= 1
       /\ \A mode \in Modes :
            LET m == matchUsers(qm', mode).match
            IN m = <<>> \/ m[1] # m[2]
       /\ \A t \in Transports, u \in Users, mode \in JoinModes :
            (QueuedFor(qm, mode) \subseteq {u} /\ RecvJoin(t, u, mode)) =>
               /\ PairedWritten(sent') = {}
               /\ pm' = pm
      ]_vars

\* a joined text twice in a row: it waits with one entry
C24_Witness ==
    /\ qm.queues["text"] = <<"a">>
    /\ Entries(qm, "a") = {<<"text", "normal", 1>>}
    /\ TypesOf(sent[1]) = <<"waiting">>
    /\ qm.queueTimestamps["a"].mode = "text"
    /\ \A u \in Users \ {"a"} : Entries(qm, u) = {}

\* one of the two tiers of mode holds maxQueueSize entries
TierFull(q, mode) ==
    \/ Len(q.queues[mode]) >= maxQueueSize
    \/ Len(q.priorityQueues[mode]) >= maxQueueSize

\* C25: no tier ever holds more than maxQueueSize entries; addToQueue answers
\* false whenever a tier of the mode is full, and then queues, userId index and
\* timestamps stay as they were; the join handler answers such a join with an
\* error and pairs nobody.
C25_TiersBounded ==
    [][/\ \A mode \in Modes :
            /\ Len(qm'.queues[mode]) <= maxQueueSize
            /\ Len(qm'.priorityQueues[mode]) <= maxQueueSize
       /\ \A u \in Users, mode \in Modes, priority \in Priorities :
            (TierFull(qm, mode) /\ AddToQueue(u, mode, priority)) =>
               /\ ~addToQueue(qm, u, mode, priority, now).ret
               /\ qm' = qm
       /\ \A t \in Transports, u \in Users, mode \in JoinModes :
            (TierFull(qm, mode) /\ RecvJoin(t, u, mode)) =>
               /\ qm' = qm /\ pm' = pm
               /\ \A m \in AllWritten(sent') : m.type = "error" /\ m.user = u
               /\ ConnOpen(connections, wsState, u) => AllWritten(sent') # {}
      ]_vars

\* the normal text tier is full and a's join was just turned down
C25_Witness ==
    /\ Len(qm.queues["text"]) = maxQueueSize
    /\ qm.priorityQueues["text"] = <<>>
    /\ \E m \in SentOfType("error") : m.user = "a"

\* the entries of s from position k on
From(s, k) == [i \in 1..(Len(s) - k + 1) |-> s[i + k - 1]]

\* how many entries matchUsers is to take from the priority tier and from the
\* normal tier of lengths lp and ln
TakenFrom(lp, ln) ==
    IF lp >= 2 THEN <<2, 0>>
    ELSE IF lp >= 1 /\ ln >= 1 THEN <<1, 1>>
    ELSE IF ln >= 2 THEN <<0, 2>>
    ELSE <<0, 0>>

\* matchUsers(mode) took q to q2 and returned match as the selection policy says
MatchedByPolicy(q, q2, match, mode) ==
    LET p == q.priorityQueues[mode]
        n == q.queues[mode]
        k == TakenFrom(Len(p), Len(n))
        taken == [i \in 1..(k[1] + k[2]) |-> IF i <= k[1] THEN p[i] ELSE n[i - k[1]]]
        users == {taken[i] : i \in 1..Len(taken)}
    IN /\ match = taken
       /\ q2.priorityQueues = [q.priorityQueues EXCEPT ![mode] = From(p, k[1] + 1)]
       /\ q2.queues = [q.queues EXCEPT ![mode] = From(n, k[2] + 1)]
       /\ q2.userQueueMap = [u \in DOMAIN q.userQueueMap \ users |-> q.userQueueMap[u]]
       /\ q2.queueTimestamps =
             [u \in DOMAIN q.queueTimestamps \ users |-> q.queueTimestamps[u]]

\* C26: matchUsers(mode) takes the two oldest priority entries; else the
\* oldest priority entry as user1 and the oldest normal entry; else the two
\* oldest normal entries; else nobody. The users taken leave queue, index and
\* timestamps, the other entries keep their order, and with fewer than two
\* entries in the mode nothing changes. The join handlers match the same way.
C26_MatchPolicy ==
    [][/\ \A mode \in Modes :
            MatchUsers(mode) =>
               MatchedByPolicy(qm, qm', matchUsers(qm, mode).match, mode)
       /\ \A t \in Transports, u \in Users, mode \in JoinModes :
            (RecvJoin(t, u, mode) /\ addToQueue(qm, u, mode, 0, now).ret) =>
               LET q1 == addToQueue(qm, u, mode, 0, now).q
                   k == TakenFrom(Len(q1.priorityQueues[mode]), Len(q1.queues[mode]))
               IN /\ \E match \in {<<>>} \cup {<<x, y>> : x, y \in Users} :
                        MatchedByPolicy(q1, qm', match, mode)
                  /\ PairedWritten(sent') # {} => k # <<0, 0>>
      ]_vars

\* c waited in the priority tier, b and then a in the normal tier: a's join
\* matched c, as user1, with b, and a stays queued
C26_Witness ==
    /\ qm.queues["text"] = <<"a">>
    /\ qm.priorityQueues["text"] = <<>>
    /\ DOMAIN qm.userQueueMap = {"a"}
    /\ MapHas(pm.sessions, "b_c")
    /\ pm.sessions["b_c"].user1 = "c" /\ pm.sessions["b_c"].user2 = "b"
    /\ \E m \in PairedWritten(sent) : m.user = "b" /\ m.partnerId = "c"

(* ---------------------------------------------------------------------- *)
(* C27 - C30: the PairingManager                                           *)
(* ---------------------------------------------------------------------- *)
\* C27: a pending mode switch never outlives its pair: when a user's pair is
\* broken no pending entry keyed by the user or by the former partner remains,
\* every pending entry names the current partner of its key, and a user who
\* enters a pair has no pending entry, so the first switchMode in the new pair
\* is a first arrival.
C27_BreakClearsPending ==
    [][/\ \A k \in DOMAIN pm'.modeSwitchPending :
            getPair(pm', k) = pm'.modeSwitchPending[k]
       /\ \A u \in Users :
            (isPaired(pm, u) /\ getPair(pm', u) # getPair(pm, u)) =>
               /\ ~MapHas(pm'.modeSwitchPending, u)
               /\ ~MapHas(pm'.modeSwitchPending, getPair(pm, u))
       /\ \A u \in Users :
            (~isPaired(pm, u) /\ isPaired(pm', u)) =>
               ~MapHas(pm'.modeSwitchPending, u)
      ]_vars

\* a's request was pending when the pair of a and b was broken; they are
\* paired anew, b has asked first in the new pair and waits as the offerer
C27_Witness ==
    /\ getPair(pm, "a") = "b"
    /\ DOMAIN pm.modeSwitchPending = {"a"} /\ pm.modeSwitchPending["a"] = "b"
    /\ [partnerId |-> "b", userId |-> "a", due |-> modeSwitchTimeout] \in timers
    /\ [partnerId |-> "a", userId |-> "b", due |-> modeSwitchTimeout] \in timers
    /\ now = 0
    /\ SessionMode(pm, "a") = "text"
    /\ getUserMode(pm, "a") = "text" /\ getUserMode(pm, "b") = "video"
    /\ SentOfType("video-mode-ready") = {}

\* C28: a pending entry is never older than modeSwitchTimeout: the timer set
\* with it is still to fire; and a switchMode of a paired user who has no
\* pending entry (none was set, or it has expired) is a first arrival: it puts
\* the sender down as initiator and sends no video-mode-ready.
C28_PendingExpires ==
    [][/\ \A k \in DOMAIN pm'.modeSwitchPending :
            \E timer \in timers' :
               /\ timer.partnerId = k
               /\ timer.userId = pm'.modeSwitchPending[k]
               /\ timer.due >= now'
               /\ timer.due <= now' + modeSwitchTimeout
       /\ \A t \in Transports, u \in Users, v \in Users :
            (/\ getPair(pm, u) = v
             /\ ~MapHas(pm.modeSwitchPending, u)
             /\ RecvModeSwitch(t, u, v)) =>
               /\ \A m \in AllWritten(sent') : m.type # "video-mode-ready"
               /\ MapHas(pm'.modeSwitchPending, v)
               /\ pm'.modeSwitchPending[v] = u
               /\ SessionMode(pm', u) = SessionMode(pm, u)
      ]_vars

\* a's request of time 0 has expired; b, asking after that, is the initiator
\* of a fresh handshake and nobody was told video-mode-ready
C28_Witness ==
    /\ now = modeSwitchTimeout
    /\ getPair(pm, "a") = "b"
    /\ getUserMode(pm, "a") = "video" /\ getUserMode(pm, "b") = "video"
    /\ SessionMode(pm, "a") = "text"
    /\ DOMAIN pm.modeSwitchPending = {"a"} /\ pm.modeSwitchPending["a"] = "b"
    /\ timers = {[partnerId |-> "a", userId |-> "b", due |-> 2 * modeSwitchTimeout]}
    /\ SentOfType("video-mode-ready") = {}

\* C29: every pair has exactly one session that belongs to it alone: for any
\* userIds the clients choose, each paired user's pair has a session entry, and
\* that entry names the two users of this pair and no others; so two pairs
\* alive at once never share or overwrite an entry, and breaking one pair
\* never removes the session of another.
C29_OneSessionPerPair ==
    \A u \in DOMAIN pm.pairs :
       LET pairId == generatePairId(u, pm.pairs[u])
       IN /\ MapHas(pm.sessions, pairId)
          /\ {pm.sessions[pairId].user1, pm.sessions[pairId].user2}
                = {u, pm.pairs[u]}

\* the reasons for which createPair(user1, user2, mode) is to fail
CreatePairMustFail(p, user1, user2, mode) ==
    \/ user1 = user2
    \/ MapHas(p.pairs, user1)
    \/ MapHas(p.pairs, user2)
    \/ mode \notin Modes

\* C30: createPair fails exactly when the two users are the same, one of them
\* is already paired, or the mode is none of text, video, voice; and a
\* createPair that fails leaves pairs, modes, sessions and pending mode
\* switches as they were.
C30_FailedCreatePairChangesNothing ==
    [][returned'.call = "createPair" =>
         /\ returned'.success =
               ~CreatePairMustFail(pm, returned'.user1, returned'.user2,
                                   returned'.mode)
         /\ ~returned'.success =>
               /\ pm'.pairs = pm.pairs
               /\ pm'.userModes = pm.userModes
               /\ pm'.sessions = pm.sessions
               /\ pm'.modeSwitchPending = pm.modeSwitchPending
      ]_vars

\* a createPair of two different users in a chat mode has failed because its
\* first user is in a pair, whose session and pending mode switch are in place
C30_Witness ==
    /\ returned.call = "createPair" /\ ~returned.success
    /\ returned.user1 # returned.user2
    /\ returned.mode \in Modes
    /\ MapHas(pm.pairs, returned.user1)
    /\ ~MapHas(pm.pairs, returned.user2)
    /\ pm.pairs[returned.user1] # returned.user2
    /\ MapHas(pm.sessions,
              generatePairId(returned.user1, pm.pairs[returned.user1]))
    /\ MapHas(pm.modeSwitchPending, returned.user1)

\* the PairingManagers reached from p by at most two switchMode calls between
\* the partners a and b, in either direction and for any chat mode
AfterSwitches(p, a, b) ==
    LET one(ps) == ps \cup
                   {switchMode(q, x[1], x[2], m, now).p :
                      q \in ps, x \in {<<a, b>>, <<b, a>>}, m \in Modes}
    IN one(one({p}))

\* C31: for unpaired users a and b, createPair(a, b, m), then any mode-switch
\* calls of the two, then breakPair(a) or breakPair(b), gives back exactly the
\* pairs, user modes, sessions and pending mode switches from before createPair.
C31_CreateBreakRestores ==
    \A a \in ClientIds, b \in ClientIds, m \in Modes :
       (a # b /\ ~isPaired(pm, a) /\ ~isPaired(pm, b)) =>
          \A q \in AfterSwitches(createPair(pm, a, b, m).p, a, b) :
             /\ breakPair(q, a).p = pm
             /\ breakPair(q, b).p = pm

\* the sequence s without the entries of the users in xs
Without(s, xs) == SelectSeq(s, LAMBDA y : y \notin xs)

\* a map without the keys in xs
MapWithout(m, xs) == [k \in (DOMAIN m) \ xs |-> m[k]]

\* q2 is q with every entry of the users xs taken out of the queues, the userId
\* index and the timestamps, and everything else in place and in order
TakenOut(q, q2, xs) ==
    /\ \A mode \in Modes :
         /\ q2.queues[mode] = Without(q.queues[mode], xs)
         /\ q2.priorityQueues[mode] = Without(q.priorityQueues[mode], xs)
    /\ q2.userQueueMap = MapWithout(q.userQueueMap, xs)
    /\ q2.queueTimestamps = MapWithout(q.queueTimestamps, xs)

\* C32: addToQueue(x, m) followed by removeFromQueue(x) leaves no entry for x
\* in a queue, the userId index or the timestamps and leaves the entries of all
\* other users and their order as they were; every removeFromQueue takes out
\* just the entries of its user, and for a user not enqueued it returns false
\* and changes nothing.
C32_AddRemoveRoundTrip ==
    /\ \A x \in Users, mode \in Modes, priority \in Priorities :
         LET added == addToQueue(qm, x, mode, priority, now)
             removed == removeFromQueue(added.q, x)
         IN /\ Entries(removed.q, x) = {}
            /\ TakenOut(qm, removed.q, {x})
            /\ added.ret => removed.ret
    /\ \A x \in Users :
         LET removed == removeFromQueue(qm, x)
         IN /\ TakenOut(qm, removed.q, {x})
            /\ removed.ret = (Entries(qm, x) # {})
            /\ ~removed.ret => removed.q = qm
    /\ returned.call = "removeFromQueue" =>
         /\ Entries(qm, returned.user1) = {}
         /\ ~MapHas(qm.userQueueMap, returned.user1)
         /\ ~MapHas(qm.queueTimestamps, returned.user1)

\* b has been taken out from between a and c, who stay queued in their order
C32_Witness ==
    /\ returned.call = "removeFromQueue" /\ returned.success
    /\ returned.user1 = "b"
    /\ qm.queues["text"] = <<"a", "c">>
    /\ DOMAIN qm.userQueueMap = {"a", "c"}
    /\ DOMAIN qm.queueTimestamps = {"a", "c"}
    /\ qm.queueTimestamps["a"].timestamp < now
    /\ qm.queueTimestamps["c"].timestamp = now

\* the age at time t of the queue entry of userId
EntryAge(q, userId, t) == t - q.queueTimestamps[userId].timestamp

\* C34: each run of the queue sweeper removes exactly the entries whose age
\* exceeds queueTimeout from their queue, the userId index and the timestamps,
\* counts one timeout per removed entry and leaves the younger entries and
\* their order untouched; every queue entry has a timestamp, and no entry is
\* ever older than queueTimeout plus one cleanup interval.
C34_SweeperRemovesExpired ==
    [][/\ CleanupExpiredEntries =>
            LET old == {u \in Users : /\ MapHas(qm.queueTimestamps, u)
                                      /\ EntryAge(qm, u, now) > queueTimeout}
            IN /\ TakenOut(qm, qm', old)
               /\ qm'.totalTimeouts = qm.totalTimeouts + Cardinality(old)
       /\ \A u \in Users :
            /\ Entries(qm', u) # {} => MapHas(qm'.queueTimestamps, u)
            /\ MapHas(qm'.queueTimestamps, u) =>
                  EntryAge(qm', u, now') <= queueTimeout + cleanupInterval
      ]_vars

\* the sweeper has just run for the second time and has removed one entry, and
\* it has left b, whose age is queueTimeout, queued and stamped
C34_Witness ==
    /\ returned.call = "cleanupExpiredEntries"
    /\ now = 2 * cleanupInterval /\ qm.cleanupDue = 3 * cleanupInterval
    /\ qm.totalTimeouts = 1
    /\ qm.queues["text"] = <<"b">>
    /\ DOMAIN qm.userQueueMap = {"b"}
    /\ DOMAIN qm.queueTimestamps = {"b"}
    /\ EntryAge(qm, "b", now) = queueTimeout

\* the reports accumulated against userId
ReportCount(s, userId) ==
    IF MapHas(s.abuseTracking, userId) THEN s.abuseTracking[userId].reportCount
    ELSE 0

\* C33: whenever disconnect handling runs for a user X with at least 3
\* accumulated reports, be it for X's disconnect frame or for the close of X's
\* transport, X's address is in the ban table afterwards with
\* until = now + ban duration.
C33_HarasserBannedOnDisconnect ==
    [][\A t \in Transports :
         (/\ wsUser[t] # None
          /\ ReportCount(sm, wsUser[t]) >= ABUSE_REPORT_COUNT_THRESHOLD
          /\ \/ RecvDisconnectTracked(t, wsUser[t])
             \/ CloseEventTracked(t)) =>
            /\ MapHas(sm'.bannedIPs, wsIp[t])
            /\ sm'.bannedIPs[wsIp[t]].until = now + DEFAULT_BAN_DURATION
      ]_vars

\* the paired and waiting messages addressed to userId among the messages snt
JoinNotices(snt, userId) ==
    {m \in AllWritten(snt) : m.user = userId /\ m.type \in {"paired", "waiting"}}

\* C35: every join-text frame of a connected user that is admitted to the queue
\* gets the joining user exactly one paired or waiting message from the same
\* handler, in every reachable state of the queues.
C35_JoinerIsNotified ==
    [][\A t \in Transports, u \in Users :
         (/\ MapHas(connections, u)
          /\ IsOpen(wsState, connections[u].ws)
          /\ addToQueue(qm, u, "text", 0, now).ret
          /\ RecvJoin(t, u, "text")) =>
            Cardinality(JoinNotices(sent', u)) = 1
      ]_vars

\* C36: after every handler no mode has two or more users waiting in its two
\* tiers together.
C36_NoTwoWaiting ==
    \A mode \in Modes :
       Len(qm.queues[mode]) + Len(qm.priorityQueues[mode]) <= 1

\* C37: in every reachable state modeSwitchPending[p] = i implies pair(i) = p
\* and pair(p) = i; so no switchMode call can fail with 'Pairing changed
\* during mode switch'.
C37_PendingOnlyBetweenPartners ==
    /\ \A p \in DOMAIN pm.modeSwitchPending :
         LET i == pm.modeSwitchPending[p]
         IN getPair(pm, i) = p /\ getPair(pm, p) = i
    /\ \A userId \in ClientIds, partnerId \in ClientIds, mode \in Modes :
         switchMode(pm, userId, partnerId, mode, now).error
            # "Pairing changed during mode switch"

\* a first arrival of a switchMode has just put down a pending entry in a
\* pair, while a second pair exists
C37_Witness ==
    /\ returned.call = "switchMode" /\ returned.success
    /\ DOMAIN pm.pairs = ClientIds
    /\ \E p \in ClientIds :
         /\ DOMAIN pm.modeSwitchPending = {p}
         /\ getPair(pm, p) = pm.modeSwitchPending[p]
         /\ getUserMode(pm, pm.modeSwitchPending[p]) = "video"
         /\ getUserMode(pm, p) = "text"

\* C38: a modeSwitchPending entry set by a first arrival stays until its own
\* modeSwitchTimeout has elapsed, unless the partner's second arrival consumes
\* it or the pair breaks: when the entry under p naming i goes away, either p
\* and i are no longer partners, or the step is a mode-switch frame of p, or
\* every timeout that i's requests to p have started has run out.
C38_PendingStaysUntilOwnTimeout ==
    [][\A p \in Users :
         (MapHas(pm.modeSwitchPending, p) /\ ~MapHas(pm'.modeSwitchPending, p)) =>
            LET i == pm.modeSwitchPending[p]
            IN \/ getPair(pm', p) # i
               \/ \E t \in Transports, v \in Users : RecvModeSwitch(t, p, v)
               \/ \A timer \in timers :
                     (timer.partnerId = p /\ timer.userId = i) => timer.due <= now
      ]_vars

\* C39: for every pair with no mode-switch handshake pending, the recorded
\* modes of both partners equal the mode of the pair's session.
C39_ModesFollowSession ==
    \A u \in Users :
       (/\ isPaired(pm, u)
        /\ ~MapHas(pm.modeSwitchPending, u)
        /\ ~MapHas(pm.modeSwitchPending, getPair(pm, u))) =>
          getUserMode(pm, u) = SessionMode(pm, u)

\* C40: a frame changes queue and pairing state only for the userId its
\* transport identified as: a disconnect or join-text frame that names another
\* userId than the one of its transport breaks no pair and enqueues nobody.
C40_FramesActForOwnUserOnly ==
    [][\A t \in Transports, u \in Users :
         (/\ wsUser[t] # None
          /\ wsUser[t] # u
          /\ RecvDisconnect(t, u) \/ RecvJoin(t, u, "text")) =>
            /\ pm' = pm
            /\ qm' = qm
      ]_vars
====
